---- MODULE Spec2Model ----
(***************************************************************************)
(* Model of the Sudoku core of hennievn/sudoku: the backtracking solver    *)
(* (solve_sudoku), the uniqueness probe (has_unique_solution) and the      *)
(* puzzle generator (generate_puzzle), as written in src/sudoku.py and     *)
(* repeated as the _original_* fallback methods of src/game.py.            *)
(*                                                                         *)
(* A board is a function [0..8 -> [0..8 -> 0..9]], indexed as the numpy    *)
(* array of the source is (board[r][c] is board[r, c]); 0 is an empty cell.*)
(***************************************************************************)
EXTENDS Integers, Sequences, FiniteSets, TLC

\* ------------------------------------------------------------------------
\* Program constants
\* ------------------------------------------------------------------------
GRID_SIZE == 9
BLOCK_SIZE == 3
timeout == 4
\* pygame.K_0, K_1, K_9, K_KP0, K_KP1, K_KP9
K_0 == 48
K_1 == 49
K_9 == 57
K_KP0 == 1073741922
K_KP1 == 1073741913
K_KP9 == 1073741921

\* ------------------------------------------------------------------------
\* Bounds of the model
\* ------------------------------------------------------------------------
\* number of seeds of the pseudo-random generator that are explored
NumSeeds == 2
\* number of cells of the solved input board that may be empty in an input
\* of the solver
RegionSize == 8
\* largest number of cells emptied at the end of the solved input board
TailSize == 17
\* largest solution_limit the solver is called with
MaxLimit == 3
\* number of seeds from which a solved board alone is generated
FillSeeds == 26
\* largest value a read of the clock returns (seconds since start_time = 0)
MaxClock == 5
\* number of events the window handles
MaxEvents == 5
\* number of games new_game makes after the first
MaxGames == 1
\* the latest iteration of the removal loop at which the clock is found
\* past the budget, when it is at one
MaxStop == 3
\* number of seeds from which the window is started
PlaySeeds == 1
\* largest number of empty cells of the region in an input board one of
\* whose cells is refilled with a conflicting digit
ClashSize == 2
\* number of empty cells of a puzzle the player clicks on
MaxClick == 2

Idx == 0 .. (GRID_SIZE - 1)
Digits == 1 .. GRID_SIZE
None == <<>>

Min(S) == CHOOSE x \in S : \A y \in S : x <= y

\* np.zeros((9, 9), dtype=int)
zeros == [r \in Idx |-> [c \in Idx |-> 0]]

\* board[r, c] = v
Place(board, r, c, v) == [board EXCEPT ![r][c] = v]

\* ------------------------------------------------------------------------
\* random: the Mersenne Twister of the standard library.  The words it puts
\* out after random.seed(a) are a fixed stream; the program only draws
\* numbers below 128 (_randbelow(n) for n <= 81), for which getrandbits(k)
\* is the top k bits of the next 32-bit word.  mt_top7[a] lists the top 7
\* bits of the first words of the stream of seed a, for the seeds listed.
\* The state of the generator is the seed and the number of words drawn.
\* random.shuffle is the Fisher-Yates loop of the standard library
\* (for i in reversed(range(1, len(x))): j = randbelow(i + 1); swap).
\* ------------------------------------------------------------------------
mt_top7 ==
    (1 :> <<
       17, 72, 108, 102, 97, 8, 32, 15, 63, 97, 57, 60, 83, 48, 100, 26, 12,
       62, 3, 114, 106, 49, 55, 77, 97, 98, 0, 89, 57, 34, 92, 102, 29, 75,
       120, 13, 115, 40, 3, 2, 3, 83, 69, 1, 120, 112, 48, 87, 27, 124, 54,
       92, 3, 67, 28, 97, 56, 120, 63, 70, 29, 44, 29, 86, 28, 97, 58, 121,
       37, 118, 2, 53, 107, 117, 71, 118, 82, 12, 23, 80, 127, 92, 110, 37,
       15, 95, 42, 114, 92, 124, 91, 64, 119, 123, 54, 64, 106, 116, 85, 24,
       38, 36, 75, 124, 112, 63, 108, 120, 64, 50, 75, 109, 4, 61, 31, 95,
       102, 51, 53, 85, 22, 46, 70, 112, 89, 99, 86, 94, 47, 11, 56, 84, 65,
       13, 99, 20, 66, 107, 50, 47, 62, 93, 3, 60, 5, 39, 90, 108, 125, 78,
       75, 74, 50, 82, 21, 21, 64, 29, 125, 1, 98, 25, 69, 117, 110, 70, 29,
       51, 65, 44, 121, 108, 73, 45, 58, 116, 34, 84, 70, 77, 122, 93, 0, 49,
       100, 109, 105, 122, 113, 120, 94, 65, 103, 16, 66, 99, 71, 26, 54, 121,
       7, 61, 111, 46, 72, 70, 25, 120, 64, 52, 62, 104, 45, 53, 44, 0, 68,
       69, 79, 100, 78, 42, 58, 76, 3, 102, 29, 81, 22, 70, 74, 23, 110, 11,
       102, 70, 102, 108, 104, 119, 32, 4, 107, 120, 86, 9, 10, 111, 2, 57, 1,
       96, 96, 35, 31, 34, 14, 102, 79, 23, 44, 37, 8, 21, 20, 32, 67, 121,
       21, 84, 34, 82, 91, 37, 58, 89, 41, 63, 60, 14, 3, 39, 49, 43, 53, 101,
       24, 33, 13, 32, 115, 93, 65, 125, 26, 123, 77, 55, 104, 124, 2, 28, 2,
       50, 18, 4, 92, 122, 20, 57, 90, 64, 86, 54, 69, 106, 28, 125, 124, 80,
       102, 88, 66, 57, 28, 67, 83, 3, 50, 86, 73, 102, 41, 84, 80, 54, 7, 94,
       38, 16, 123, 27, 112, 6, 39, 9, 109, 9, 39, 117, 120, 38, 95, 20, 53,
       72, 32, 16, 1, 71, 112, 108, 4, 75, 104, 27, 123, 115, 72, 58, 21, 105,
       111, 111, 124, 99, 90, 79, 65, 4, 48, 25, 44, 12, 26, 73, 86, 114, 55,
       75, 24, 63, 13, 120, 85, 49, 37, 64, 63, 2, 41, 78, 111, 51, 115, 36,
       2, 20, 25, 109, 41, 103, 126, 72, 100, 17, 43, 54, 27, 34, 86, 12, 107,
       48, 119, 70, 44, 117, 112, 107, 87, 68, 62, 98, 126, 68, 30, 8, 92, 5,
       10, 17, 21, 21, 116, 68, 27, 34, 97, 42, 76, 64, 107, 32, 47, 43, 43,
       14, 37, 30, 111, 120, 77, 99, 122, 91, 113, 62, 17, 74, 70, 98, 13, 41,
       5, 52, 9, 48, 110, 126, 100, 18, 106, 16, 43, 14, 78, 75, 100, 118, 48,
       9, 73, 70, 28, 72, 10, 121, 34, 46, 114, 37, 72, 68, 118, 14, 58, 114,
       35, 13, 100, 5, 105, 37, 1, 78, 85, 1, 11, 52, 14, 105, 113, 101, 5,
       24, 30, 100, 126, 75, 53, 20, 14, 57, 21, 87, 30, 20, 95, 108, 13, 55,
       116, 123, 48, 103, 124, 69, 116, 104, 37, 70, 32, 91, 61, 40, 12, 26,
       83, 40, 5, 3, 1, 100, 125, 118, 37, 92, 76, 40, 57, 50, 40, 51, 8, 8,
       116, 40, 124, 76, 124, 58, 14, 32, 27, 100, 79, 99, 125, 114, 69, 111,
       88, 60, 84, 45, 33, 23, 69, 26, 39, 25, 31, 46, 10, 104, 35, 11, 125,
       96, 57, 11, 83, 73, 82, 43, 120, 29, 49, 123, 39, 5, 41, 23, 40, 101,
       108, 74, 114, 117, 38, 31, 42, 12, 69, 78, 74, 103, 76, 11, 31, 28, 2,
       103, 31, 51, 9, 34, 70, 111, 9, 93, 9, 2, 81, 1, 37, 96, 101, 45, 63,
       60, 110, 109, 19, 12, 64, 99, 101, 41, 9, 65, 121, 85, 22, 22, 99, 19,
       126, 18, 105, 110, 40, 39, 13, 90, 65, 106, 117, 77, 37, 16, 114, 26,
       18, 69, 116, 92, 4, 99, 40, 105, 115, 79, 102, 86, 116, 70, 107, 120,
       95, 126, 88, 26, 22, 38, 55, 68, 20, 6, 91, 110, 85, 31, 32, 99, 8, 87,
       123, 57, 103, 55, 70, 32, 69, 56, 108, 68, 58, 1, 50, 107, 43, 21, 33,
       62, 3, 101, 82, 119, 53, 124, 73, 2, 7, 88, 45, 74, 17, 75, 16, 17, 33,
       125, 106, 35, 50, 72, 51, 22, 78, 11, 29, 62, 0, 22, 67, 40, 64, 114,
       83, 117, 56, 119, 87, 81, 93, 28, 30, 40, 63, 87, 61, 122, 28, 91, 52,
       43, 71, 78, 116, 93, 117, 83, 35, 124, 82, 28, 6, 117, 9, 97, 65, 82,
       112, 47, 20, 65, 98, 101, 113, 26, 39, 38, 88, 38, 108, 70, 47, 21, 89,
       89, 94, 59, 76, 10, 109, 15, 114, 77, 122, 65, 73, 48, 22, 19, 32, 54,
       27, 120, 72, 92, 96, 100, 6, 63, 87, 50, 91, 81, 44, 49, 65, 108, 21,
       69, 93, 127, 5, 67, 125, 11, 103, 32, 80, 12, 34, 94, 116, 10, 122,
       124, 17, 124, 99, 78, 107, 123, 84, 87, 89, 10, 56, 108, 118, 30, 124,
       108, 48, 120, 102, 115, 55, 50, 21, 116, 41, 56, 16, 79, 116, 62, 122,
       27, 15, 55, 76, 68, 52, 116, 15, 84, 37, 35, 31, 48, 95, 71, 0, 122,
       24, 67, 56, 74, 2, 3, 80, 124, 77, 31, 106, 33, 26, 22, 36, 18, 69, 25,
       34, 39, 74, 96, 32, 106, 87, 57, 101, 110, 103, 109, 124, 21, 69, 45,
       62, 53, 109, 15, 98, 26, 73, 112, 49, 26, 36, 103, 13, 115, 103, 3, 15,
       72, 95, 1, 69, 37, 123, 86, 97, 92, 124, 83, 17, 9, 64, 47, 73, 103,
       39, 55, 64, 86, 45, 97, 67, 41, 0, 15, 56, 91, 57, 44, 39, 69, 51, 43,
       100, 93, 87, 73, 63, 14, 82, 117, 48, 48, 26, 71, 0, 127, 35, 81, 76,
       92, 112, 94, 106, 93, 65, 25, 126, 118, 59, 76, 106, 66, 52, 119, 95,
       91, 126, 126, 39, 89, 21, 57, 79, 85, 67, 25, 46, 67, 0, 86, 49, 74,
       54, 124, 51, 43, 110, 79, 74, 124, 93, 89, 114, 123, 95, 8, 63, 126,
       95, 31, 81, 123, 83, 37, 80, 2, 52, 92, 80, 19, 81, 99, 119, 50, 100,
       34, 108, 22, 98, 9, 104, 99, 77, 1, 44, 116, 33, 102, 90, 52, 111, 87,
       69, 38, 19, 59, 106, 33, 62, 21, 59, 65, 5, 34, 65, 12, 95, 75, 54, 8,
       45, 8, 84, 56, 2, 21, 64, 90, 121, 20, 88, 11, 51, 81, 88, 35, 77, 38,
       26, 67, 26, 30, 113, 42, 34, 8, 9, 89, 106, 116, 66, 84, 47, 59, 65,
       71, 94, 6, 21, 38, 83, 94, 91, 127, 104, 71, 34, 45, 78, 94, 29, 50,
       71, 51, 22, 61, 101, 33, 110, 78, 42, 91, 28, 33, 123, 78, 90, 31, 108,
       84, 3, 109, 115, 111, 79, 51, 40, 118, 55, 119, 97, 31, 100, 34, 24, 9,
       80, 93, 21, 111, 124, 74, 56, 74, 116, 119, 93, 18, 77, 121, 33, 58,
       67, 20, 17, 99, 17, 114, 91, 56, 46, 39, 96, 51, 30, 14, 91, 26, 91,
       87, 39, 8, 13, 29, 50, 41, 63, 118, 12, 122, 23, 5, 7, 103, 76, 2, 113,
       96, 27, 87, 4, 63, 90, 67, 104, 92, 123, 113, 78, 56, 43, 84, 107, 35,
       15, 78, 88, 22, 12, 28, 51, 29, 63, 57, 48, 96, 21, 124, 29, 30, 104,
       36, 59, 70, 74, 49, 27, 57, 91, 33, 42, 63, 75, 14, 116, 27, 127, 10,
       5, 1, 102, 0, 109, 61, 40, 113, 49, 108, 74, 36, 117, 25, 51, 20, 112,
       105, 97, 82, 19, 101, 116, 3, 1, 49, 18, 112, 85, 69, 7, 72, 48, 32,
       16, 10, 59, 83, 107, 38, 115, 1, 4, 68, 7, 67, 107, 16, 5, 119, 35, 99,
       15, 55, 11, 24, 3, 63, 81, 16, 95, 35, 87, 104, 108, 24, 84, 57, 49,
       42, 80, 34, 124, 33, 82, 81, 31, 31, 7, 75, 119, 100, 75, 22, 44, 54,
       77, 89, 71, 81, 66, 124, 7, 115, 45, 70, 52, 68, 25, 91, 112, 68, 54,
       117, 84, 8, 91, 34, 95, 78, 92, 124, 96, 9, 32, 22, 124, 12, 19, 7,
       117, 26, 109, 54, 109, 5, 6, 81, 11, 116, 104, 65, 60, 64, 47, 12, 126,
       40, 5, 16, 68, 4, 56, 85, 16, 114, 50, 97, 90, 115, 112, 57, 3, 94, 67,
       34, 11, 32, 102, 41, 10, 38, 4, 110, 49, 7, 93, 33, 40, 94, 16, 33,
       101, 48, 103, 14, 109, 86, 38, 12, 54, 107, 31, 64, 71, 26, 42, 118,
       43, 65, 100, 50, 122, 114, 74, 61, 13, 16, 83, 104, 57, 67, 126, 71,
       92, 108, 106, 74, 89, 66, 68, 3, 114, 125, 106, 126, 37, 95, 20, 25,
       47, 49, 66, 41, 12, 52, 44, 16, 73, 8, 5, 38, 104, 102, 83, 68, 40, 53,
       38, 40, 45, 34, 41, 95, 95, 66, 64, 1, 67, 15, 19, 40, 117, 93, 41,
       100, 41, 73, 8, 57, 125, 35, 61, 58, 116, 46, 118, 94, 124, 48, 104,
       113, 118, 10, 118, 74, 102, 7, 17, 6, 67, 62, 73, 109, 127, 32, 100,
       31, 89, 73, 95, 43, 46, 126, 120, 102, 82, 47, 51, 39, 59, 76, 125, 43,
       68, 64, 21, 3, 18, 32, 87, 28, 72, 17, 116, 14, 23, 98, 52, 120, 93,
       79, 6, 103, 12, 125, 69, 87, 34, 91, 13, 26, 33, 8, 80, 73, 67, 82, 10,
       109, 9, 101, 108, 27, 82, 107, 22, 65, 110, 55, 2, 75, 47, 115, 108,
       62, 90, 103, 36, 28, 114, 25, 76, 63, 110, 115, 114, 30, 54, 57, 86,
       46, 69, 116, 120, 24, 102, 61, 92, 9, 104, 107, 127, 124, 32, 52, 25,
       1, 95, 68, 98, 48, 65, 112, 62, 9, 51, 78, 112, 65, 101, 74, 74, 54, 5,
       45, 108, 126, 58, 0, 24, 122, 38, 89, 88, 82, 0, 69, 15, 105, 38, 65,
       113, 127, 95, 40, 124, 99, 69, 82, 73, 127, 70, 36, 67, 52, 69, 120,
       104, 118, 122, 66, 52, 77, 80, 74, 39, 57, 38, 16, 64, 56, 75, 17, 70,
       98, 125, 124, 20, 32, 81, 1, 127, 54, 94, 84, 72, 4, 47, 53, 51, 36,
       119, 84, 114, 96, 85, 2, 115, 11, 118, 11, 108, 0, 49, 34, 59, 34, 101,
       100, 47, 81, 95, 109, 61, 98, 43, 49, 58, 102, 14, 61, 45, 18, 53, 18,
       2, 127, 22, 104, 33, 47, 109, 16, 75, 100, 36, 121, 127, 52, 33, 120,
       65, 36, 94, 53, 88, 35, 55, 42, 99, 116, 62, 27, 91, 106, 62, 121, 124,
       51, 91, 54, 11, 8, 16, 26, 123, 19, 29, 93, 3, 13, 32, 19, 61, 99, 121,
       12, 51, 83, 92, 23, 106, 0, 11, 54, 78, 122, 127, 6, 70, 27, 68, 54,
       44, 6, 121, 83, 124, 118, 13, 94, 70, 86, 53, 106, 85, 94, 15, 127, 33,
       87, 35, 22, 61, 103, 101, 90, 109, 6, 100, 27, 86, 82, 11, 110, 49, 15,
       85, 57, 37, 87, 65, 63, 115, 50, 14, 77, 109, 61, 13, 19, 49, 78, 115,
       89, 25, 21, 66, 32, 53, 95, 113, 119, 126, 68, 36, 111, 63, 81, 114,
       103, 69, 116, 27, 100, 97, 79, 43, 110, 62, 13, 1, 96, 126, 93, 84, 44,
       118, 113, 123, 90, 34, 7, 69, 80, 56, 38, 97, 115, 107, 12, 29, 65, 35,
       34, 90, 31, 52, 18, 16, 32, 24, 52, 71, 80, 76, 115, 122, 7, 68, 106,
       77, 65, 19, 121, 52, 34, 35, 61, 89, 39, 34, 62, 27, 63, 47, 76, 60,
       30, 43, 22, 77, 97, 23, 94, 112, 74, 88, 57, 68, 19, 7, 64, 41, 67, 88,
       17, 82, 97, 103, 126, 114, 27, 40, 79, 63, 61, 42, 15, 16, 113, 17, 89,
       32, 28, 11, 81, 68, 106, 89, 6, 72, 22, 87, 14, 28, 72, 25, 64, 72, 84,
       113, 39, 54, 41, 0, 99, 2, 105, 39, 105, 78, 28, 10, 95, 28, 35, 87,
       80, 126, 110, 43, 34, 76, 92, 66, 48, 2, 15, 42, 44, 17, 14, 32, 115,
       98, 18, 87, 73, 5, 44, 9, 11, 92, 127, 13, 38, 40, 31, 34, 67, 6, 46,
       3, 10, 17, 118, 51, 47, 119, 92, 81, 88, 30, 12, 86, 42, 35, 1, 65,
       113, 41, 122, 121, 14, 45, 118, 102, 101, 82, 92, 107, 16, 77, 118,
       111, 34, 51, 11, 86, 73, 79, 92, 67, 60, 72, 53, 68, 119, 50, 38, 114,
       28, 80, 38, 70, 17, 6, 76, 65, 14, 22, 30, 27, 114, 55, 35, 69, 2, 32,
       68, 34, 120, 67, 33, 60, 16, 51, 90, 13, 95, 47, 8, 83, 125, 69, 46,
       69, 71, 108, 102, 92, 64, 87, 74, 3, 79, 39, 57, 87, 16, 19, 9, 116,
       74, 18, 86, 112, 105, 27, 61, 107, 102, 108, 98, 42, 46, 113, 37, 20,
       19, 108, 101, 48, 106, 56, 51, 15, 125, 76, 18, 34, 37, 85, 87, 102,
       81, 77, 121, 1, 68, 121, 1, 117, 104, 82, 16, 48, 95, 71, 120, 112, 12,
       58, 3, 99, 55, 76, 86, 54, 35, 119, 47, 52, 51, 77, 59, 6, 12, 60, 99,
       4, 82, 90, 89, 0, 103, 5, 106, 14, 75, 17, 67, 65, 97, 45, 70, 34, 100,
       125, 72, 116, 123, 83, 45, 102, 60, 104, 89, 31, 118, 103, 79, 30, 13,
       71, 121, 45, 111, 20, 14, 99, 5, 117, 90, 40, 54, 112, 93, 44, 32, 84,
       80, 127, 114, 98, 117, 7, 78, 55, 53, 48, 45, 37, 96, 104, 43, 56, 102,
       89, 30, 81, 78, 66, 18, 7, 43, 86, 14, 114, 65, 22, 69, 82, 80, 62,
       114, 43, 96, 90, 15, 124, 74, 2, 61, 114, 26, 49, 80, 106, 121, 22, 50,
       91, 29, 12, 31, 42, 124, 124, 42, 84, 31, 100, 86, 59, 95, 60, 47, 63,
       83, 98, 84, 92, 119, 24, 55, 56, 51, 69, 15, 73, 62, 118, 34, 107, 16,
       19, 1, 48, 53, 13, 102, 3, 83, 9, 120, 23, 58, 98, 48, 85, 64, 102,
       104, 36, 117, 19, 19, 124, 67, 105, 13, 121, 32, 2, 59, 50, 103, 81,
       90, 94, 101, 116, 29, 68, 89, 50, 126, 0, 69, 102, 31, 125, 54, 116,
       20, 84, 22, 43, 84, 30, 9, 99, 68, 119, 71, 122, 20, 22, 48, 74, 2, 65,
       27, 54, 30, 101, 5, 119, 66, 92, 24, 89, 64, 88, 78, 83, 127, 68, 9,
       31, 50, 99, 59, 15, 72, 82, 6, 49, 11, 71, 12, 82, 104, 61, 5, 125, 66,
       30, 99, 1, 2, 122, 109, 39, 59, 35, 92, 53, 21, 76, 17, 126, 71, 90,
       105, 40, 98, 68, 81, 57, 126, 64, 102, 53, 70, 21, 89, 50, 89, 49, 103,
       25, 63, 104, 35, 46, 118, 19, 33, 72, 35, 108, 22, 99, 92, 79, 10, 93,
       46, 43, 118, 18, 33, 32, 32, 44, 49, 35, 72, 59, 1, 19, 122, 16, 122,
       32, 28, 25, 9, 102, 74, 68, 79, 25, 69, 54, 91, 111, 30, 73, 17, 70,
       58, 50, 91, 25, 10, 80, 119, 9, 19, 100, 85, 7, 3, 95, 51, 48, 53, 87,
       17, 75, 76, 16, 86, 68, 69, 9, 118, 30, 108, 48, 17, 36, 25, 84, 92,
       126, 50, 45, 95, 107, 22, 28, 38, 90, 18, 44, 62, 68, 37, 11, 65, 105,
       38, 26, 90, 59, 2, 37, 102, 103, 79, 75, 13, 78, 47, 96, 56, 32, 79, 7,
       6, 106, 100, 40, 20, 103, 16, 122, 118, 80, 105, 13, 14, 109, 55, 81,
       75, 31, 95, 26, 64, 64, 50, 15, 116, 115, 126, 90, 27, 104, 121, 49,
       84, 118, 66, 17, 104, 91, 74, 32, 92, 0, 91, 15, 103, 25, 126, 97, 72,
       48, 84, 61, 69, 78, 29, 34, 4, 81, 21, 85, 85, 117, 70, 64, 29, 109,
       52, 123, 35, 98, 84, 53, 51, 34, 63, 12, 85, 106, 106, 16, 23, 71, 2,
       58, 96, 5, 62, 27, 50, 105, 93, 68, 105, 118, 43, 116, 31, 12, 9, 86,
       95, 5, 108, 54, 106, 56, 24, 122, 22, 76, 64, 24, 108, 65, 49, 66, 46,
       25, 29, 46, 84, 112, 75, 125, 96, 99, 126, 8, 43, 115, 6, 58, 5, 106,
       78, 22, 114, 18, 109, 116, 120, 36, 60, 5, 74, 64, 8, 126, 110, 106,
       72, 50, 11, 127, 51, 101, 65, 107, 73, 82, 38, 50, 34, 115, 45, 60,
       123, 119, 6, 70, 121, 116, 111, 61, 2, 54, 38, 75, 95, 40, 101, 19, 76,
       75, 71, 108, 127, 35, 8, 110, 77, 100, 101, 99, 46, 53, 50, 127, 66,
       101, 3, 73, 74, 14, 4, 73, 67, 1, 12, 115, 42, 43, 119, 47, 96, 70, 4,
       81, 47, 74, 9, 62, 114, 81, 10, 108, 69, 57, 42, 64, 117, 103, 69, 0,
       118, 20, 116, 41, 46, 27, 18, 114, 74, 18, 75, 13, 51, 40, 110, 65, 53,
       105, 46, 127, 43, 109, 33, 77, 47, 4, 91, 8, 98, 80, 31, 104, 101, 33,
       96, 124, 50, 70, 36, 73, 100, 79, 10, 9, 90, 21, 115, 119, 121, 34, 52,
       10, 16, 36, 70, 92, 82, 33, 30, 26, 12, 35, 92, 61, 6, 94, 65, 38, 100>>)
    @@
    (2 :> <<
       122, 110, 121, 108, 7, 11, 10, 46, 106, 21, 94, 103, 85, 109, 39, 32,
       77, 27, 77, 4, 74, 87, 20, 127, 55, 81, 50, 102, 92, 110, 127, 65, 121,
       47, 69, 119, 56, 64, 34, 115, 4, 111, 3, 46, 59, 119, 40, 116, 48, 54,
       114, 113, 67, 21, 71, 22, 30, 29, 3, 22, 41, 22, 17, 65, 65, 46, 127,
       65, 86, 71, 23, 127, 114, 57, 101, 53, 94, 67, 116, 116, 97, 46, 101,
       75, 45, 46, 125, 109, 123, 57, 20, 122, 96, 51, 91, 94, 59, 83, 67, 31,
       62, 35, 118, 63, 64, 65, 106, 101, 45, 84, 113, 58, 115, 115, 59, 44,
       72, 92, 117, 71, 92, 58, 62, 84, 28, 120, 41, 104, 89, 106, 21, 112,
       116, 78, 34, 98, 116, 61, 39, 38, 122, 102, 90, 106, 64, 71, 66, 64,
       83, 78, 75, 52, 39, 93, 26, 62, 65, 46, 119, 87, 79, 112, 9, 100, 105,
       43, 92, 1, 116, 104, 24, 127, 95, 13, 7, 73, 83, 6, 34, 75, 29, 87,
       112, 117, 13, 96, 66, 17, 109, 34, 31, 105, 26, 120, 112, 7, 54, 114,
       91, 97, 4, 7, 46, 46, 22, 31, 86, 3, 10, 14, 122, 8, 3, 5, 93, 117, 2,
       47, 32, 16, 104, 119, 20, 94, 23, 66, 88, 0, 49, 75, 5, 101, 126, 31,
       19, 124, 4, 0, 44, 120, 78, 80, 95, 95, 14, 36, 43, 62, 3, 39, 57, 70,
       98, 77, 94, 5, 115, 33, 96, 51, 110, 79, 90, 19, 60, 122, 28, 11, 84,
       87, 40, 107, 13, 3, 57, 100, 111, 121, 16, 66, 74, 99, 50, 62, 65, 41,
       18, 111, 122, 43, 33, 33, 77, 124, 53, 83, 2, 89, 71, 122, 17, 85, 7,
       32, 4, 16, 20, 21, 12, 58, 81, 29, 65, 117, 125, 90, 119, 4, 127, 31,
       29, 91, 56, 9, 32, 10, 75, 29, 79, 101, 102, 79, 90, 46, 32, 87, 54,
       35, 67, 96, 0, 19, 4, 49, 52, 20, 14, 65, 92, 11, 30, 13, 12, 2, 23,
       96, 29, 13, 27, 3, 66, 85, 59, 58, 39, 68, 82, 48, 27, 87, 116, 97,
       123, 26, 93, 103, 55, 54, 65, 2, 74, 75, 6, 112, 53, 118, 67, 74, 23,
       117, 12, 84, 102, 61, 46, 2, 66, 122, 117, 15, 78, 46, 37, 88, 125,
       119, 47, 39, 2, 111, 87, 52, 12, 13, 39, 25, 107, 99, 86, 105, 2, 103,
       57, 7, 52, 81, 62, 59, 26, 113, 75, 78, 9, 0, 36, 3, 47, 39, 119, 92,
       9, 28, 96, 62, 24, 14, 73, 47, 50, 91, 59, 17, 96, 44, 50, 113, 15, 32,
       15, 15, 10, 78, 108, 42, 82, 50, 122, 27, 88, 13, 3, 79, 84, 60, 99, 5,
       92, 90, 63, 37, 45, 122, 58, 18, 102, 47, 34, 61, 67, 110, 61, 92, 122,
       93, 102, 53, 119, 62, 107, 87, 37, 50, 29, 20, 62, 76, 33, 70, 54, 89,
       86, 89, 117, 10, 74, 93, 104, 73, 12, 9, 45, 22, 127, 69, 18, 103, 53,
       114, 8, 102, 11, 116, 114, 87, 126, 103, 82, 4, 16, 124, 37, 49, 29,
       90, 85, 113, 87, 42, 56, 22, 67, 36, 14, 19, 69, 126, 121, 124, 96, 54,
       12, 42, 66, 31, 91, 65, 32, 21, 114, 20, 59, 121, 90, 30, 51, 111, 127,
       45, 100, 97, 73, 93, 18, 59, 56, 92, 3, 103, 76, 49, 112, 94, 23, 50,
       65, 6, 61, 35, 51, 32, 90, 93, 119, 52, 90, 82, 60, 46, 123, 70, 42,
       91, 95, 116, 84, 10, 97, 104, 109, 92, 28, 68, 79, 24, 51, 104, 85, 48,
       125, 112, 81, 117, 1, 40, 59, 67, 91, 116, 113, 59, 83, 22, 104, 12, 2,
       51, 120, 27, 93, 72, 77, 49, 115, 27, 113, 124, 12, 49, 104, 71, 98,
       102, 25, 35, 95, 117, 75, 74, 24, 62, 102, 78, 17, 1, 78, 86, 55, 61,
       32, 65, 72, 22, 59, 91, 26, 124, 123, 97, 9, 44, 0, 115, 62, 68, 107,
       85, 84, 8, 96, 75, 62, 118, 86, 118, 42, 58, 34, 112, 64, 58, 3, 126,
       10, 78, 96, 44, 22, 97, 96, 120, 100, 127, 51, 32, 86, 80, 100, 106,
       110, 92, 17, 6, 20, 63, 48, 127, 59, 86, 37, 19, 1, 36, 71, 59, 123, 0,
       46, 4, 68, 108, 48, 72, 56, 26, 111, 86, 39, 63, 83, 17, 61, 88, 68,
       91, 117, 38, 9, 33, 105, 40, 38, 42, 82, 121, 101, 39, 83, 82, 50, 66,
       107, 117, 11, 65, 81, 26, 50, 76, 67, 108, 108, 19, 102, 64, 80, 11,
       39, 5, 29, 121, 58, 71, 29, 66, 35, 7, 122, 14, 14, 86, 104, 100, 48,
       109, 46, 27, 40, 45, 9, 42, 58, 46, 21, 63, 56, 111, 37, 59, 114, 17,
       117, 91, 56, 126, 81, 27, 118, 34, 41, 20, 12, 113, 30, 60, 24, 96, 86,
       108, 47, 23, 45, 17, 101, 17, 29, 34, 103, 70, 81, 48, 51, 103, 105,
       95, 43, 35, 112, 92, 118, 76, 64, 74, 88, 93, 121, 41, 95, 51, 96, 91,
       111, 90, 119, 80, 96, 124, 125, 91, 37, 68, 79, 81, 85, 9, 47, 39, 50,
       61, 22, 33, 122, 115, 45, 56, 61, 11, 114, 118, 23, 40, 122, 48, 16,
       123, 3, 13, 44, 21, 45, 9, 117, 112, 113, 93, 97, 83, 55, 1, 69, 41,
       30, 105, 106, 76, 49, 69, 36, 60, 81, 115, 19, 46, 40, 25, 118, 63, 12,
       124, 18, 100, 26, 42, 32, 18, 53, 46, 32, 11, 43, 24, 31, 90, 30, 93,
       78, 5, 43, 120, 47, 82, 98, 78, 7, 110, 18, 22, 108, 8, 55, 56, 99, 34,
       16, 41, 66, 73, 108, 14, 43, 82, 98, 90, 78, 122, 50, 29, 127, 6, 50,
       98, 60, 62, 79, 111, 40, 69, 107, 79, 76, 11, 75, 65, 68, 85, 126, 63,
       126, 51, 107, 88, 58, 21, 52, 49, 67, 57, 5, 112, 13, 57, 127, 75, 16,
       15, 119, 117, 87, 64, 117, 22, 9, 50, 39, 58, 102, 90, 1, 32, 13, 85,
       44, 28, 22, 3, 18, 54, 85, 125, 11, 43, 124, 104, 83, 59, 6, 109, 115,
       60, 30, 8, 61, 17, 71, 3, 17, 89, 64, 69, 7, 6, 25, 69, 117, 0, 105,
       104, 66, 43, 87, 67, 112, 30, 17, 47, 62, 0, 16, 69, 14, 31, 13, 59,
       27, 102, 6, 78, 27, 80, 48, 43, 79, 82, 109, 50, 115, 119, 91, 67, 64,
       99, 117, 86, 20, 65, 13, 106, 104, 19, 80, 122, 26, 22, 48, 25, 38, 43,
       55, 18, 54, 16, 50, 40, 102, 38, 103, 12, 71, 12, 60, 34, 36, 67, 97,
       62, 126, 35, 29, 53, 89, 17, 89, 70, 84, 13, 3, 77, 70, 96, 25, 27, 24,
       50, 74, 5, 82, 17, 80, 3, 95, 33, 89, 92, 60, 69, 6, 94, 98, 110, 105,
       28, 106, 18, 76, 40, 4, 88, 25, 127, 13, 17, 81, 88, 69, 117, 23, 97,
       122, 11, 125, 87, 115, 111, 59, 80, 37, 123, 26, 20, 105, 41, 89, 104,
       35, 108, 115, 66, 72, 8, 52, 114, 53, 85, 92, 4, 58, 38, 84, 110, 15,
       81, 89, 93, 34, 120, 116, 2, 27, 53, 42, 33, 68, 93, 50, 75, 67, 95,
       118, 114, 25, 55, 98, 16, 88, 21, 100, 111, 57, 111, 58, 124, 44, 49,
       60, 78, 32, 78, 24, 74, 60, 56, 24, 96, 60, 108, 73, 43, 39, 9, 21, 47,
       77, 80, 110, 60, 28, 98, 78, 83, 84, 73, 113, 16, 87, 119, 39, 111, 26,
       68, 107, 105, 38, 12, 1, 100, 111, 3, 25, 126, 40, 7, 40, 68, 32, 101,
       92, 85, 43, 105, 56, 9, 53, 60, 106, 91, 2, 36, 74, 73, 16, 27, 19, 20,
       77, 98, 48, 92, 8, 81, 75, 57, 117, 35, 82, 10, 63, 61, 102, 100, 117,
       30, 19, 72, 38, 108, 123, 109, 118, 29, 25, 79, 90, 118, 111, 42, 75,
       78, 89, 50, 67, 52, 30, 82, 27, 71, 7, 33, 85, 31, 17, 120, 79, 93, 50,
       105, 55, 15, 124, 58, 50, 50, 60, 123, 48, 36, 27, 30, 28, 7, 68, 67,
       104, 113, 11, 77, 121, 69, 86, 0, 6, 49, 90, 55, 51, 29, 65, 34, 12,
       46, 65, 46, 66, 120, 100, 63, 74, 8, 90, 58, 94, 89, 28, 35, 3, 3, 61,
       5, 16, 83, 18, 26, 41, 30, 68, 6, 78, 18, 82, 37, 120, 97, 13, 82, 71,
       69, 11, 86, 85, 17, 55, 90, 17, 4, 39, 65, 84, 34, 60, 6, 120, 71, 45,
       97, 43, 87, 118, 12, 77, 46, 13, 77, 100, 44, 46, 101, 121, 120, 81,
       35, 103, 61, 114, 36, 65, 76, 123, 19, 3, 5, 43, 55, 107, 81, 1, 44,
       86, 124, 127, 68, 91, 6, 110, 84, 9, 88, 69, 64, 78, 98, 55, 54, 53,
       30, 101, 23, 20, 78, 5, 2, 75, 97, 123, 92, 105, 45, 86, 23, 37, 2,
       115, 111, 5, 123, 31, 72, 100, 119, 114, 28, 51, 8, 116, 46, 14, 118,
       76, 116, 8, 31, 29, 70, 24, 13, 0, 88, 51, 10, 64, 109, 35, 74, 83, 28,
       6, 67, 66, 127, 67, 117, 51, 54, 117, 100, 16, 19, 54, 16, 58, 94, 47,
       6, 124, 122, 73, 23, 66, 104, 56, 121, 55, 76, 121, 105, 102, 111, 82,
       57, 20, 63, 76, 126, 16, 109, 44, 18, 2, 32, 90, 23, 125, 19, 81, 52,
       72, 80, 32, 125, 56, 60, 59, 24, 54, 55, 34, 99, 28, 45, 96, 80, 121,
       4, 105, 50, 79, 106, 3, 54, 38, 119, 107, 3, 124, 116, 70, 61, 72, 33,
       87, 34, 31, 59, 91, 58, 46, 66, 108, 79, 59, 116, 84, 31, 71, 108, 68,
       20, 58, 36, 121, 119, 96, 46, 53, 14, 64, 87, 114, 31, 95, 124, 83, 84,
       122, 49, 14, 55, 76, 59, 79, 66, 58, 11, 123, 94, 123, 106, 49, 57, 78,
       120, 98, 91, 89, 94, 46, 116, 102, 71, 44, 21, 18, 29, 85, 114, 83, 22,
       52, 57, 63, 90, 126, 92, 103, 22, 52, 33, 116, 40, 73, 117, 51, 38, 82,
       91, 100, 124, 114, 33, 85, 40, 85, 1, 51, 75, 5, 26, 58, 12, 14, 1,
       120, 107, 46, 41, 77, 40, 93, 51, 22, 95, 106, 118, 41, 100, 10, 67,
       76, 61, 51, 79, 117, 30, 56, 113, 12, 77, 2, 44, 3, 38, 63, 17, 91, 90,
       6, 1, 42, 51, 61, 83, 114, 78, 124, 0, 112, 61, 81, 116, 73, 26, 28,
       94, 78, 41, 21, 42, 38, 99, 106, 50, 72, 76, 92, 62, 59, 97, 35, 10,
       64, 27, 73, 46, 30, 46, 108, 47, 125, 102, 23, 114, 30, 69, 103, 83,
       92, 79, 28, 26, 75, 59, 30, 50, 110, 34, 75, 26, 65, 110, 20, 0, 51,
       98, 60, 94, 46, 83, 23, 86, 25, 93, 89, 77, 118, 23, 108, 62, 78, 0,
       101, 93, 17, 117, 26, 127, 90, 27, 0, 79, 10, 58, 99, 81, 25, 94, 23,
       34, 50, 78, 107, 2, 1, 46, 112, 14, 39, 4, 73, 46, 60, 48, 15, 9, 122,
       59, 22, 18, 103, 112, 112, 98, 58, 116, 122, 82, 8, 34, 18, 111, 61,
       68, 9, 116, 103, 114, 67, 90, 102, 37, 36, 117, 3, 70, 113, 71, 26, 9,
       53, 116, 16, 23, 75, 39, 59, 118, 25, 109, 5, 89, 43, 58, 100, 7, 19,
       125, 29, 109, 79, 44, 81, 39, 102, 89, 82, 13, 108, 24, 19, 104, 118,
       28, 3, 41, 15, 34, 13, 47, 99, 9, 64, 103, 117, 109, 124, 122, 121, 91,
       78, 17, 44, 16, 122, 54, 93, 95, 25, 39, 70, 97, 2, 96, 2, 43, 81, 19,
       92, 9, 110, 69, 96, 6, 17, 124, 94, 63, 125, 53, 86, 45, 61, 84, 37,
       38, 8, 113, 80, 19, 123, 94, 14, 0, 105, 11, 114, 18, 45, 113, 108, 91,
       19, 121, 38, 99, 72, 86, 112, 118, 68, 16, 11, 126, 119, 29, 73, 92,
       99, 95, 29, 103, 42, 126, 11, 112, 23, 85, 55, 26, 52, 83, 84, 4, 106,
       124, 42, 54, 118, 63, 83, 71, 44, 118, 23, 67, 122, 15, 84, 110, 5, 16,
       87, 121, 48, 18, 53, 98, 97, 94, 28, 81, 34, 78, 69, 89, 115, 15, 11,
       65, 106, 73, 92, 79, 22, 25, 84, 125, 79, 86, 90, 9, 68, 121, 40, 16,
       64, 30, 30, 86, 58, 86, 51, 58, 13, 40, 29, 6, 44, 13, 50, 2, 72, 14,
       95, 103, 33, 45, 70, 30, 43, 54, 29, 5, 17, 21, 122, 16, 119, 93, 106,
       120, 21, 50, 19, 127, 13, 82, 38, 97, 54, 59, 0, 14, 54, 0, 88, 12,
       106, 4, 24, 55, 0, 24, 101, 109, 48, 104, 40, 108, 19, 22, 34, 109, 34,
       103, 32, 72, 29, 123, 66, 121, 104, 39, 39, 72, 53, 63, 61, 110, 107,
       49, 98, 37, 126, 50, 22, 83, 103, 53, 37, 101, 73, 58, 67, 54, 73, 88,
       41, 69, 9, 72, 1, 32, 118, 52, 113, 74, 58, 92, 11, 114, 107, 108, 64,
       69, 60, 67, 81, 35, 20, 123, 27, 47, 104, 13, 94, 28, 125, 27, 55, 16,
       124, 65, 113, 24, 64, 49, 114, 104, 20, 110, 9, 39, 104, 58, 18, 96,
       65, 11, 94, 47, 86, 23, 28, 114, 100, 70, 5, 55, 71, 4, 114, 50, 69,
       97, 38, 29, 127, 20, 93, 51, 101, 28, 114, 110, 119, 25, 73, 125, 105,
       29, 64, 114, 32, 70, 35, 77, 33, 20, 3, 82, 79, 122, 51, 65, 116, 91,
       6, 7, 100, 62, 24, 70, 41, 120, 37, 93, 122, 115, 82, 5, 59, 42, 23,
       57, 6, 26, 47, 32, 124, 95, 56, 33, 86, 64, 112, 32, 6, 92, 41, 1, 53,
       83, 28, 23, 49, 88, 87, 61, 17, 54, 88, 127, 37, 9, 84, 124, 22, 97,
       101, 6, 53, 114, 106, 8, 123, 68, 74, 19, 2, 3, 46, 27, 124, 87, 83,
       72, 97, 68, 60, 55, 120, 85, 116, 99, 78, 88, 75, 42, 13, 107, 0, 9,
       26, 2, 92, 67, 108, 122, 98, 106, 113, 67, 3, 19, 3, 37, 32, 15, 2, 82,
       75, 2, 118, 44, 115, 35, 13, 49, 85, 115, 85, 81, 84, 23, 52, 1, 30,
       27, 113, 20, 115, 79, 91, 55, 69, 111, 4, 73, 35, 13, 30, 74, 31, 6,
       27, 104, 85, 30, 87, 105, 22, 79, 115, 104, 0, 21, 122, 15, 74, 25, 82,
       30, 36, 42, 88, 10, 112, 82, 26, 81, 16, 72, 100, 122, 31, 126, 13, 46,
       62, 88, 23, 26, 27, 49, 36, 0, 10, 29, 104, 127, 72, 39, 83, 47, 37,
       69, 99, 121, 123, 39, 127, 84, 5, 97, 39, 124, 11, 127, 60, 64, 84, 17,
       77, 72, 45, 36, 123, 116, 79, 54, 127, 76, 54, 113, 82, 104, 12, 121,
       68, 23, 82, 77, 29, 118, 79, 81, 16, 8, 59, 10, 77, 18, 61, 3, 19, 48,
       24, 61, 47, 66, 83, 17, 55, 120, 25, 13, 43, 43, 39, 55, 17, 31, 75,
       33, 60, 103, 41, 118, 0, 93, 116, 106, 5, 0, 14, 26, 37, 7, 101, 56,
       119, 64, 97, 28, 26, 31, 107, 9, 4, 3, 14, 49, 14, 53, 72, 119, 75, 54,
       80, 65, 121, 3, 96, 112, 95, 3, 22, 15, 116, 111, 117, 25, 106, 28, 10,
       114, 91, 35, 66, 117, 68, 116, 34, 14, 98, 125, 103, 23, 98, 76, 38,
       25, 94, 77, 11, 22, 87, 123, 3, 116, 0, 85, 13, 115, 83, 102, 125, 58,
       59, 2, 82, 114, 75, 0, 107, 114, 124, 29, 104, 89, 42, 86, 9, 30, 114,
       88, 35, 100, 97, 124, 110, 14, 21, 122, 24, 10, 54, 126, 108, 35, 109,
       63, 127, 14, 34, 76, 79, 18, 111, 41, 48, 28, 75, 127, 28, 25, 109, 62,
       56, 14, 62, 50, 83, 111, 40, 91, 104, 7, 58, 5, 54, 58, 92, 121, 85,
       121, 90, 88, 111, 30, 103, 70, 52, 70, 82, 96, 110, 113, 7, 100, 84,
       103, 67, 123, 51, 34, 15, 57, 36, 38, 95, 121, 113, 53, 126, 30, 96,
       86, 112, 104, 105, 97, 21, 112, 88, 31, 111, 15, 96, 3, 35, 68, 89, 16,
       49, 112, 55, 74, 93, 4, 86, 87, 17, 90, 82, 5, 7, 118, 26, 4, 105, 116,
       116, 91, 32, 68, 97, 106, 23, 20, 63, 127, 44, 86, 10, 90, 55, 127, 70,
       78, 108, 20, 13, 53, 36, 31, 0, 80, 26, 98, 34, 7, 104, 28, 120, 104,
       27, 87, 61, 112, 67, 95, 62, 57, 122, 97, 121, 2, 4, 39, 52, 108, 67,
       79, 83, 120, 67, 27, 104, 54, 12, 58, 59, 67, 106, 84, 21, 71, 22, 38,
       78, 120, 18, 91, 69, 108, 15, 66, 23, 3, 42, 92, 100, 6, 78, 95, 77,
       34, 80, 103, 50, 41, 124, 76, 76, 73, 80, 16, 8, 72, 31, 18, 74, 117,
       122, 43, 90, 41, 6, 114, 103, 108, 27, 111, 76, 6, 24, 46, 7, 1, 98,
       87, 62, 50, 77, 19, 90, 6, 76, 83, 53, 8, 41, 20, 67, 66, 31, 13, 33,
       107, 103, 32, 43, 63, 92, 116, 86, 35, 59, 93, 100, 27, 42, 70, 0, 78,
       108, 0, 95, 76, 94, 75, 117, 12, 52, 121, 54, 53, 78, 58, 111, 72, 35,
       53, 97, 115, 122, 0, 32, 3, 2, 127, 20, 77>>)
    @@
    (3 :> <<
       30, 75, 69, 16, 47, 117, 77, 60, 80, 74, 8, 77, 1, 116, 107, 60, 33,
       70, 29, 24, 127, 91, 60, 69, 107, 70, 60, 50, 81, 110, 19, 29, 81, 19,
       111, 118, 66, 49, 94, 1, 85, 99, 8, 20, 97, 122, 75, 5, 38, 99, 3, 105,
       110, 34, 60, 76, 92, 117, 112, 49, 91, 100, 117, 54, 50, 93, 102, 73,
       56, 123, 119, 17, 112, 46, 12, 4, 17, 63, 27, 33, 123, 86, 55, 99, 80,
       109, 38, 53, 64, 106, 49, 73, 44, 68, 74, 52, 74, 29, 115, 43, 87, 117,
       118, 3, 109, 35, 126, 77, 85, 89, 20, 89, 110, 41, 123, 69, 115, 73,
       72, 13, 91, 83, 27, 81, 106, 126, 73, 34, 36, 15, 8, 61, 109, 81, 126,
       61, 11, 44, 102, 8, 52, 114, 19, 2, 37, 54, 98, 53, 111, 15, 5, 77, 78,
       97, 5, 48, 91, 75, 42, 70, 112, 118, 125, 35, 64, 30, 127, 4, 39, 0, 9,
       13, 76, 68, 4, 121, 25, 124, 52, 37, 78, 33, 19, 88, 5, 125, 111, 43,
       40, 46, 122, 17, 114, 110, 48, 48, 58, 111, 66, 49, 82, 110, 76, 87,
       71, 13, 79, 124, 120, 103, 64, 34, 55, 81, 92, 91, 30, 119, 38, 55,
       125, 33, 66, 38, 70, 43, 1, 100, 53, 126, 74, 40, 2, 48, 78, 75, 80,
       17, 7, 81, 80, 42, 59, 45, 86, 117, 45, 77, 90, 35, 94, 62, 2, 75, 7,
       122, 86, 2, 123, 47, 32, 80, 58, 38, 75, 76, 40, 22, 46, 23, 40, 97,
       47, 108, 76, 33, 38, 100, 48, 13, 98, 104, 3, 124, 72, 87, 94, 16, 39,
       64, 28, 83, 102, 34, 30, 41, 23, 86, 55, 83, 89, 12, 13, 76, 41, 121,
       42, 86, 106, 28, 56, 103, 109, 122, 21, 10, 43, 94, 83, 27, 113, 72,
       57, 34, 28, 100, 15, 4, 67, 122, 24, 40, 103, 107, 107, 73, 23, 110,
       35, 43, 103, 105, 82, 10, 103, 79, 44, 75, 16, 53, 37, 66, 101, 108,
       34, 59, 44, 81, 53, 37, 53, 72, 52, 4, 117, 52, 19, 25, 0, 61, 120,
       106, 112, 79, 126, 65, 55, 71, 121, 126, 118, 91, 28, 4, 95, 58, 107,
       96, 84, 95, 66, 123, 36, 69, 43, 113, 29, 110, 8, 109, 75, 124, 36, 15,
       103, 31, 5, 4, 115, 102, 88, 65, 118, 25, 114, 113, 115, 55, 73, 6, 1,
       61, 95, 15, 21, 64, 38, 30, 84, 2, 67, 68, 52, 6, 120, 116, 78, 14, 43,
       16, 32, 124, 110, 69, 61, 103, 100, 7, 45, 28, 25, 15, 68, 113, 104,
       15, 21, 30, 101, 35, 117, 113, 103, 16, 105, 117, 0, 62, 80, 73, 110,
       51, 6, 96, 34, 31, 34, 79, 67, 66, 54, 6, 60, 41, 99, 104, 0, 109, 7,
       99, 16, 5, 15, 6, 8, 61, 124, 4, 109, 91, 11, 65, 64, 62, 40, 20, 40,
       9, 44, 49, 82, 49, 75, 38, 46, 33, 24, 126, 42, 54, 15, 16, 71, 0, 91,
       92, 48, 101, 10, 72, 22, 5, 47, 58, 77, 83, 100, 69, 48, 81, 102, 5,
       79, 113, 55, 6, 47, 80, 63, 97, 89, 40, 53, 121, 88, 53, 58, 2, 31, 27,
       68, 34, 88, 75, 9, 102, 54, 28, 54, 16, 112, 3, 119, 41, 47, 124, 114,
       71, 101, 111, 33, 15, 59, 88, 15, 120, 104, 93, 84, 108, 113, 67, 101,
       48, 85, 13, 93, 40, 72, 68, 13, 103, 75, 91, 0, 60, 18, 30, 99, 49, 5,
       67, 11, 72, 12, 84, 112, 48, 22, 104, 3, 43, 107, 109, 15, 3, 108, 14,
       86, 61, 107, 89, 121, 36, 74, 38, 102, 11, 4, 127, 98, 72, 65, 67, 91,
       30, 13, 70, 95, 12, 119, 70, 7, 70, 41, 111, 72, 23, 105, 9, 30, 127,
       23, 82, 31, 58, 78, 89, 96, 120, 50, 32, 47, 76, 50, 120, 44, 71, 53,
       123, 10, 48, 64, 30, 124, 118, 52, 107, 95, 123, 20, 53, 88, 72, 96,
       74, 86, 118, 66, 87, 61, 19, 82, 51, 114, 113, 19, 20, 12, 63, 95, 61,
       117, 89, 66, 121, 56, 75, 92, 109, 23, 17, 34, 96, 25, 18, 74, 65, 40,
       119, 29, 108, 88, 68, 122, 99, 37, 85, 90, 109, 52, 76, 109, 74, 74,
       125, 34, 113, 27, 39, 2, 34, 61, 102, 48, 25, 22, 72, 46, 30, 41, 61,
       99, 110, 18, 53, 126, 89, 61, 89, 76, 26, 59, 74, 106, 115, 105, 83,
       71, 3, 61, 127, 92, 9, 109, 121, 51, 100, 93, 112, 122, 5, 59, 116, 29,
       114, 30, 82, 91, 99, 86, 8, 122, 27, 109, 32, 30, 113, 24, 99, 33, 17,
       23, 79, 90, 86, 109, 4, 115, 119, 32, 21, 110, 5, 40, 23, 54, 11, 93,
       102, 10, 15, 11, 33, 106, 116, 37, 4, 45, 57, 74, 93, 86, 43, 0, 3, 42,
       42, 55, 48, 62, 9, 26, 82, 74, 95, 122, 62, 50, 16, 69, 40, 15, 113,
       35, 9, 85, 55, 14, 56, 113, 67, 116, 32, 12, 67, 120, 89, 47, 86, 98,
       47, 96, 57, 37, 84, 86, 85, 83, 120, 103, 104, 33, 13, 96, 120, 123,
       43, 86, 72, 68, 67, 14, 85, 63, 65, 45, 7, 91, 37, 86, 93, 72, 95, 23,
       82, 82, 93, 80, 19, 22, 47, 113, 117, 83, 58, 15, 13, 119, 71, 18, 117,
       42, 82, 92, 83, 76, 53, 71, 38, 82, 23, 58, 61, 39, 100, 22, 90, 8, 13,
       91, 23, 96, 70, 69, 73, 94, 50, 45, 12, 34, 34, 49, 6, 111, 17, 5, 61,
       64, 34, 31, 89, 98, 65, 45, 112, 42, 120, 51, 57, 69, 103, 98, 8, 45,
       63, 108, 127, 14, 19, 34, 75, 12, 87, 14, 72, 99, 116, 93, 14, 23, 89,
       24, 72, 53, 85, 95, 50, 104, 125, 95, 16, 75, 77, 18, 110, 50, 102, 24,
       69, 67, 21, 72, 22, 25, 111, 32, 47, 100, 37, 3, 107, 102, 56, 114, 52,
       121, 104, 49, 40, 70, 115, 74, 39, 81, 63, 125, 67, 87, 90, 38, 114,
       110, 85, 61, 3, 76, 24, 93, 81, 0, 13, 98, 96, 84, 29, 62, 22, 67, 80,
       58, 25, 24, 100, 67, 27, 4, 104, 64, 118, 82, 121, 56, 14, 72, 36, 122,
       84, 114, 19, 17, 59, 101, 11, 79, 118, 6, 3, 46, 79, 29, 64, 9, 63, 68,
       2, 119, 43, 41, 42, 111, 44, 88, 88, 17, 10, 109, 107, 76, 99, 118, 4,
       91, 10, 94, 127, 43, 127, 103, 26, 119, 8, 110, 25, 55, 89, 96, 28, 62,
       40, 13, 100, 5, 52, 9, 108, 25, 90, 20, 50, 63, 60, 89, 8, 68, 109, 54,
       26, 83, 62, 38, 2, 59, 58, 96, 88, 51, 56, 23, 58, 115, 4, 92, 32, 46,
       108, 47, 57, 67, 46, 76, 51, 28, 124, 0, 102, 26, 33, 100, 47, 18, 109,
       58, 68, 24, 20, 26, 2, 21, 74, 51, 64, 21, 81, 3, 17, 14, 77, 21, 56,
       62, 23, 7, 107, 2, 51, 57, 40, 52, 4, 90, 91, 6, 30, 51, 5, 50, 63, 3,
       116, 123, 113, 28, 30, 12, 49, 60, 24, 21, 42, 79, 14, 44, 116, 15, 76,
       6, 103, 93, 37, 35, 125, 100, 120, 59, 101, 119, 123, 38, 62, 31, 71,
       34, 3, 104, 43, 80, 127, 44, 40, 11, 7, 87, 55, 124, 11, 75, 79, 0, 13,
       3, 87, 11, 2, 21, 64, 4, 61, 6, 24, 83, 65, 115, 42, 25, 115, 124, 96,
       61, 43, 102, 61, 117, 44, 120, 84, 4, 48, 39, 96, 77, 80, 121, 50, 11,
       121, 37, 23, 108, 52, 14, 64, 49, 70, 42, 68, 87, 99, 118, 51, 22, 107,
       94, 110, 93, 49, 106, 120, 70, 45, 118, 23, 46, 102, 53, 56, 29, 56,
       99, 89, 61, 44, 34, 105, 21, 64, 92, 96, 77, 117, 90, 89, 49, 121, 62,
       5, 19, 21, 90, 96, 2, 105, 59, 11, 97, 88, 86, 84, 12, 40, 30, 76, 107,
       102, 82, 7, 112, 78, 111, 6, 57, 59, 114, 111, 93, 82, 42, 127, 47, 0,
       9, 24, 51, 100, 122, 117, 13, 43, 72, 39, 14, 57, 10, 105, 83, 26, 30,
       88, 6, 125, 19, 119, 82, 18, 74, 126, 1, 14, 29, 36, 123, 26, 28, 108,
       71, 65, 53, 64, 99, 116, 77, 40, 100, 113, 68, 100, 24, 59, 22, 79, 10,
       5, 105, 103, 14, 76, 3, 109, 123, 12, 25, 120, 114, 32, 10, 13, 59, 51,
       28, 105, 106, 87, 78, 13, 82, 62, 97, 85, 111, 89, 44, 51, 77, 84, 57,
       99, 14, 37, 106, 120, 76, 56, 104, 48, 26, 14, 69, 0, 59, 38, 93, 82,
       9, 43, 44, 24, 62, 96, 9, 118, 70, 87, 94, 46, 54, 100, 82, 8, 77, 66,
       27, 31, 44, 107, 127, 7, 42, 30, 55, 56, 10, 32, 27, 41, 21, 95, 119,
       26, 92, 27, 111, 112, 126, 94, 78, 59, 119, 91, 68, 109, 53, 47, 121,
       24, 115, 79, 121, 52, 61, 114, 99, 125, 52, 60, 127, 75, 117, 4, 37,
       122, 119, 2, 23, 114, 12, 3, 92, 19, 37, 64, 66, 7, 81, 60, 5, 24, 95,
       26, 35, 62, 55, 4, 44, 59, 94, 25, 95, 100, 36, 18, 13, 56, 38, 116,
       52, 56, 9, 26, 19, 62, 97, 103, 89, 36, 124, 48, 125, 103, 112, 81, 47,
       120, 20, 55, 39, 120, 59, 60, 67, 127, 69, 28, 46, 122, 109, 36, 36, 3,
       59, 47, 113, 45, 103, 106, 38, 95, 31, 119, 103, 66, 1, 1, 16, 80, 67,
       19, 68, 2, 21, 121, 6, 0, 26, 125, 98, 101, 59, 45, 125, 123, 100, 46,
       125, 70, 4, 62, 23, 30, 1, 35, 55, 115, 43, 106, 6, 77, 69, 103, 12,
       57, 39, 33, 31, 86, 102, 63, 53, 92, 33, 43, 5, 3, 54, 4, 80, 127, 86,
       21, 116, 97, 103, 72, 31, 122, 17, 95, 97, 107, 101, 52, 65, 96, 106,
       43, 70, 17, 35, 2, 21, 5, 2, 62, 82, 7, 114, 104, 115, 58, 59, 66, 85,
       96, 118, 110, 104, 125, 77, 65, 53, 47, 66, 80, 21, 37, 23, 9, 87, 17,
       126, 106, 70, 13, 52, 99, 45, 56, 58, 35, 102, 32, 57, 36, 122, 67, 19,
       73, 40, 17, 66, 4, 52, 62, 108, 29, 105, 58, 119, 74, 78, 34, 3, 40,
       73, 76, 70, 14, 62, 16, 35, 100, 90, 96, 116, 34, 13, 55, 85, 9, 47, 4,
       65, 62, 114, 96, 122, 105, 82, 57, 24, 39, 117, 44, 23, 83, 49, 120,
       106, 50, 40, 6, 34, 27, 121, 4, 120, 40, 40, 78, 50, 71, 36, 4, 16, 53,
       32, 52, 125, 115, 10, 63, 29, 122, 25, 94, 10, 89, 67, 14, 95, 80, 107,
       15, 80, 107, 104, 112, 0, 120, 36, 124, 123, 88, 8, 55, 34, 125, 61,
       59, 34, 37, 69, 71, 6, 22, 30, 62, 122, 21, 18, 19, 115, 90, 22, 88,
       127, 59, 86, 50, 82, 1, 18, 50, 6, 23, 97, 80, 22, 39, 24, 83, 105, 16,
       111, 18, 6, 67, 122, 19, 68, 27, 48, 99, 13, 55, 49, 23, 126, 3, 35,
       13, 16, 14, 18, 37, 16, 49, 45, 120, 117, 77, 9, 119, 24, 0, 120, 47,
       127, 18, 125, 61, 31, 8, 45, 69, 121, 114, 62, 13, 90, 108, 40, 60, 2,
       94, 44, 67, 95, 109, 100, 56, 72, 52, 59, 68, 68, 39, 56, 19, 68, 58,
       106, 49, 25, 96, 76, 37, 119, 95, 108, 95, 22, 38, 123, 109, 107, 122,
       21, 40, 34, 107, 25, 16, 6, 77, 125, 7, 52, 78, 111, 22, 14, 73, 1, 20,
       111, 15, 101, 51, 126, 72, 87, 47, 67, 89, 98, 35, 11, 59, 69, 74, 56,
       41, 18, 75, 76, 27, 41, 58, 64, 72, 47, 81, 40, 75, 45, 89, 76, 98,
       125, 92, 119, 44, 110, 88, 106, 43, 36, 124, 125, 38, 34, 23, 15, 77,
       64, 28, 93, 127, 43, 93, 82, 31, 36, 55, 123, 34, 57, 16, 61, 42, 68,
       100, 111, 22, 126, 79, 67, 66, 56, 127, 79, 6, 8, 53, 54, 70, 108, 78,
       99, 37, 7, 30, 109, 48, 49, 27, 125, 9, 46, 65, 27, 7, 70, 63, 113, 15,
       55, 93, 111, 49, 91, 71, 46, 1, 38, 47, 64, 47, 51, 56, 47, 116, 83,
       87, 112, 13, 74, 63, 18, 41, 28, 0, 47, 8, 78, 0, 17, 113, 10, 26, 41,
       55, 36, 25, 3, 3, 68, 93, 117, 40, 68, 56, 94, 46, 106, 92, 107, 102,
       116, 27, 56, 43, 87, 74, 15, 65, 112, 118, 48, 28, 60, 17, 113, 39, 36,
       70, 24, 15, 105, 22, 76, 112, 10, 55, 3, 101, 44, 48, 0, 62, 106, 126,
       23, 60, 35, 17, 49, 26, 65, 81, 55, 75, 80, 121, 84, 38, 55, 36, 12,
       81, 125, 95, 88, 112, 10, 8, 56, 112, 96, 95, 126, 41, 8, 108, 1, 41,
       61, 116, 54, 80, 114, 12, 105, 84, 42, 82, 53, 112, 74, 28, 113, 41,
       25, 82, 50, 122, 11, 6, 82, 66, 3, 115, 119, 65, 67, 30, 73, 106, 10,
       23, 29, 105, 60, 105, 109, 117, 68, 50, 36, 44, 125, 58, 84, 122, 67,
       29, 25, 73, 38, 43, 115, 75, 17, 74, 68, 46, 79, 66, 45, 40, 98, 110,
       116, 74, 109, 92, 94, 67, 26, 57, 7, 92, 55, 109, 39, 80, 24, 63, 111,
       109, 27, 23, 105, 13, 120, 58, 15, 118, 116, 64, 50, 107, 27, 40, 23,
       96, 4, 41, 63, 31, 49, 112, 108, 87, 106, 93, 7, 30, 51, 46, 49, 28,
       22, 36, 32, 44, 33, 6, 88, 123, 43, 93, 14, 26, 28, 38, 56, 22, 72, 21,
       31, 61, 89, 26, 27, 103, 85, 46, 77, 29, 22, 87, 96, 67, 50, 76, 69,
       54, 76, 22, 80, 38, 56, 47, 7, 10, 100, 68, 110, 58, 62, 2, 74, 22, 34,
       66, 115, 53, 87, 63, 28, 49, 104, 64, 126, 62, 44, 51, 127, 79, 61, 97,
       22, 14, 91, 53, 43, 110, 93, 18, 74, 41, 13, 44, 67, 18, 108, 38, 61,
       80, 69, 19, 110, 118, 57, 47, 63, 5, 74, 44, 105, 81, 25, 79, 11, 89,
       97, 124, 70, 75, 38, 74, 114, 86, 113, 36, 69, 41, 126, 52, 107, 118,
       95, 83, 37, 118, 1, 54, 86, 71, 94, 97, 44, 54, 61, 47, 72, 23, 31, 37,
       89, 24, 72, 106, 49, 91, 14, 41, 70, 20, 40, 117, 92, 62, 22, 69, 50,
       59, 25, 116, 52, 70, 73, 46, 13, 92, 7, 77, 61, 89, 25, 21, 64, 85, 21,
       15, 12, 70, 68, 15, 118, 49, 111, 71, 65, 40, 50, 35, 8, 61, 35, 87,
       40, 29, 120, 33, 15, 27, 121, 14, 61, 47, 55, 18, 33, 47, 123, 87, 23,
       33, 73, 99, 65, 121, 25, 85, 28, 31, 126, 33, 101, 44, 93, 43, 115, 13,
       12, 111, 90, 17, 96, 10, 28, 125, 58, 42, 124, 14, 41, 106, 97, 18, 21,
       5, 85, 62, 34, 127, 65, 17, 47, 115, 111, 56, 95, 54, 64, 72, 87, 73,
       54, 125, 102, 55, 32, 37, 69, 34, 74, 115, 49, 19, 5, 4, 21, 55, 81, 0,
       27, 101, 97, 16, 64, 93, 122, 26, 108, 89, 93, 82, 47, 32, 5, 80, 71,
       72, 95, 123, 117, 45, 25, 15, 20, 27, 125, 122, 94, 9, 62, 54, 94, 36,
       19, 14, 69, 43, 85, 104, 77, 93, 20, 33, 17, 11, 79, 10, 113, 87, 17,
       12, 0, 89, 10, 80, 100, 66, 50, 90, 58, 70, 127, 84, 78, 56, 33, 22,
       89, 105, 0, 8, 36, 87, 89, 53, 21, 0, 4, 43, 66, 92, 41, 106, 124, 46,
       13, 5, 102, 27, 49, 1, 103, 68, 56, 119, 85, 92, 41, 80, 28, 56, 57,
       30, 102, 0, 44, 27, 29, 20, 53, 50, 12, 50, 40, 125, 73, 14, 69, 85,
       76, 31, 37, 12, 3, 51, 3, 75, 43, 28, 25, 58, 72, 65, 33, 81, 97, 126,
       76, 48, 84, 114, 94, 26, 66, 75, 54, 81, 39, 102, 8, 22, 101, 57, 64,
       67, 12, 36, 118, 120, 74, 120, 79, 18, 56, 66, 16, 39, 127, 66, 21, 28,
       46, 67, 127, 37, 15, 9, 63, 8, 61, 102, 31, 94, 118, 98, 53, 2, 1, 2,
       60, 79, 0, 7, 90, 65, 111, 61, 115, 1, 6, 44, 86, 37, 39, 104, 60, 62,
       38, 99, 39, 102, 16, 39, 80, 72, 11, 51, 123, 83, 5, 14, 123, 87, 24,
       30, 10, 20, 95, 50, 67, 95, 98, 92, 65, 17, 80, 21, 10, 123, 86, 38,
       65, 109, 123, 65, 0, 63, 8, 46, 86, 63, 118, 10, 53, 85, 91, 42, 71,
       100, 50, 55, 59, 43, 77, 120, 3, 41, 39, 61, 94, 81, 33, 100, 60, 95,
       32, 26, 45, 12, 83, 33, 95, 61, 122, 53, 61, 96, 25, 92, 43, 76, 7, 84,
       30, 127, 74, 6, 78, 51, 30, 49, 23, 40, 12, 83, 22, 116, 64, 57, 32,
       55, 113, 53, 72, 73, 43, 48, 55, 104, 5, 46, 93, 104, 96, 50, 46, 115,
       92, 50, 34, 67, 28, 17, 29, 112, 25, 98, 77, 3, 82, 52, 93, 108, 13,
       77, 98, 51, 61, 61, 48, 64, 64, 71, 55, 78, 25, 60, 50, 7, 82, 71, 91,
       20, 117, 2, 24, 72, 114, 87, 102, 123>>)
    @@
    (4 :> <<
       30, 38, 13, 92, 50, 61, 19, 11, 8, 2, 51, 70, 117, 37, 102, 126, 97, 7,
       28, 66, 68, 46, 35, 99, 22, 105, 13, 33, 27, 120, 118, 3, 106, 82, 103,
       33, 102, 34, 24, 21, 39, 37, 80, 111, 93, 122, 109, 108, 112, 47, 11,
       108, 77, 43, 85, 49, 64, 31, 22, 31, 60, 35, 11, 120, 119, 104, 110,
       120, 70, 107, 38, 0, 116, 37, 73, 90, 112, 39, 108, 97, 65, 24, 52, 54,
       76, 36, 55, 57, 20, 29, 39, 33, 104, 102, 5, 10, 5, 59, 80, 127, 35,
       66, 68, 82, 60, 89, 43, 18, 127, 86, 25, 8, 52, 116, 25, 81, 80, 56,
       35, 23, 45, 55, 95, 75, 41, 81, 71, 25, 115, 41, 12, 107, 7, 90, 29,
       35, 97, 74, 78, 110, 30, 15, 42, 119, 22, 37, 58, 3, 5, 45, 89, 10,
       114, 123, 122, 36, 94, 86, 122, 41, 2, 41, 36, 41, 123, 19, 99, 83, 52,
       110, 120, 111, 79, 87, 104, 9, 37, 79, 24, 114, 56, 37, 17, 32, 48, 76,
       123, 20, 42, 73, 1, 46, 5, 58, 21, 46, 100, 102, 46, 127, 37, 73, 12,
       56, 125, 26, 54, 117, 26, 14, 7, 7, 7, 94, 21, 76, 86, 124, 19, 77, 5,
       69, 62, 74, 31, 41, 127, 4, 15, 106, 67, 37, 99, 127, 52, 83, 126, 25,
       61, 25, 30, 56, 52, 62, 4, 28, 53, 56, 31, 82, 113, 54, 106, 27, 63,
       24, 4, 4, 32, 32, 31, 67, 26, 98, 29, 53, 111, 33, 18, 41, 6, 114, 118,
       40, 72, 14, 126, 72, 51, 123, 115, 83, 83, 111, 101, 91, 95, 5, 63, 49,
       11, 55, 26, 119, 111, 73, 115, 120, 118, 21, 43, 37, 84, 60, 102, 115,
       82, 40, 104, 53, 67, 27, 83, 102, 87, 102, 34, 43, 118, 50, 122, 63, 9,
       109, 124, 35, 123, 80, 85, 24, 5, 50, 115, 79, 16, 98, 123, 34, 85,
       109, 7, 111, 21, 88, 81, 59, 72, 60, 95, 51, 118, 49, 27, 102, 0, 27,
       118, 20, 1, 78, 112, 32, 14, 50, 103, 98, 100, 48, 112, 28, 70, 6, 112,
       121, 25, 20, 85, 77, 42, 104, 114, 71, 99, 100, 60, 117, 67, 56, 3, 10,
       4, 89, 76, 14, 62, 71, 110, 32, 77, 99, 17, 5, 46, 10, 98, 112, 66,
       115, 1, 38, 107, 44, 105, 9, 10, 122, 69, 58, 48, 26, 100, 125, 39, 49,
       29, 97, 62, 109, 123, 51, 12, 9, 14, 117, 79, 102, 113, 46, 65, 127,
       55, 53, 109, 91, 99, 56, 8, 80, 112, 120, 25, 81, 38, 119, 107, 61, 54,
       15, 102, 71, 21, 47, 111, 20, 22, 90, 19, 41, 63, 110, 43, 33, 69, 124,
       115, 0, 90, 21, 0, 82, 39, 15, 69, 14, 62, 100, 91, 76, 61, 67, 9, 66,
       31, 52, 108, 37, 45, 29, 98, 23, 126, 110, 80, 0, 86, 6, 78, 116, 40,
       69, 116, 116, 59, 100, 116, 72, 39, 119, 111, 64, 100, 56, 78, 79, 56,
       50, 18, 32, 98, 76, 46, 126, 84, 43, 17, 55, 10, 77, 18, 86, 103, 79,
       22, 36, 115, 120, 47, 25, 73, 101, 44, 86, 79, 113, 11, 9, 51, 82, 119,
       115, 22, 42, 83, 47, 41, 22, 38, 113, 2, 77, 2, 67, 121, 96, 106, 11,
       102, 45, 103, 104, 122, 12, 20, 23, 74, 126, 63, 84, 73, 127, 120, 9,
       97, 118, 123, 126, 14, 22, 83, 61, 86, 113, 95, 28, 79, 100, 106, 84,
       38, 109, 118, 88, 51, 112, 76, 30, 114, 62, 90, 28, 39, 47, 29, 95, 41,
       68, 80, 67, 127, 57, 115, 102, 51, 64, 51, 124, 104, 40, 36, 56, 52,
       75, 1, 32, 23, 114, 69, 58, 88, 71, 78, 105, 46, 51, 121, 49, 79, 3,
       19, 65, 8, 58, 124, 123, 126, 80, 117, 44, 77, 101, 39, 116, 11, 96,
       33, 61, 28, 81, 118, 61, 114, 77, 99, 8, 19, 118, 30, 8, 38, 16, 121,
       6, 20, 50, 101, 74, 87, 79, 70, 91, 122, 68, 33, 2, 67, 31, 20, 96, 12,
       26, 4, 121, 40, 10, 15, 34, 7, 112, 127, 82, 36, 78, 113, 80, 89, 22,
       93, 19, 83, 53, 121, 16, 112, 90, 92, 10, 71, 46, 88, 0, 92, 112, 70,
       19, 64, 52, 19, 27, 108, 38, 61, 64, 8, 48, 21, 20, 111, 113, 32, 65,
       50, 68, 87, 38, 110, 51, 42, 21, 49, 7, 54, 125, 3, 35, 112, 86, 2, 38,
       122, 101, 19, 10, 20, 14, 108, 77, 105, 1, 29, 29, 70, 1, 61, 116, 91,
       68, 23, 113, 105, 57, 127, 93, 90, 111, 117, 87, 119, 89, 48, 43, 108,
       22, 106, 67, 75, 24, 13, 60, 79, 115, 116, 45, 39, 119, 82, 106, 114,
       52, 76, 94, 4, 105, 80, 27, 32, 74, 109, 102, 84, 75, 39, 100, 114, 61,
       80, 106, 43, 103, 106, 10, 114, 30, 114, 40, 113, 13, 84, 124, 89, 4,
       77, 41, 67, 60, 126, 122, 45, 118, 10, 22, 91, 5, 63, 66, 69, 105, 76,
       91, 31, 4, 25, 86, 9, 43, 100, 77, 116, 17, 89, 39, 14, 64, 125, 113,
       105, 105, 65, 107, 0, 9, 108, 28, 79, 35, 79, 122, 2, 113, 93, 124, 4,
       1, 61, 89, 18, 27, 46, 31, 113, 94, 95, 44, 104, 125, 38, 109, 49, 80,
       77, 51, 4, 22, 52, 63, 124, 8, 96, 65, 110, 65, 38, 71, 88, 36, 100,
       26, 90, 90, 55, 41, 22, 27, 2, 61, 113, 55, 119, 124, 35, 42, 96, 116,
       52, 121, 80, 118, 107, 52, 41, 96, 79, 26, 32, 35, 65, 11, 3, 51, 33,
       77, 36, 86, 117, 82, 16, 78, 97, 40, 11, 119, 126, 100, 21, 79, 11, 89,
       27, 119, 119, 32, 85, 27, 113, 82, 63, 97, 14, 82, 43, 1, 58, 72, 126,
       26, 21, 11, 31, 66, 107, 12, 14, 102, 124, 40, 37, 111, 72, 74, 84, 19,
       116, 95, 9, 84, 108, 127, 22, 115, 91, 95, 3, 96, 98, 102, 23, 86, 26,
       33, 4, 75, 41, 80, 42, 94, 125, 98, 77, 108, 46, 126, 126, 20, 21, 96,
       27, 6, 122, 6, 121, 20, 87, 120, 125, 118, 7, 86, 115, 33, 90, 117, 85,
       85, 107, 63, 13, 108, 25, 102, 17, 50, 61, 76, 69, 63, 69, 41, 46, 55,
       95, 51, 107, 4, 97, 117, 4, 23, 19, 45, 28, 37, 30, 46, 73, 110, 24,
       120, 79, 86, 44, 49, 46, 68, 90, 14, 120, 28, 24, 127, 44, 23, 125, 68,
       27, 2, 3, 15, 24, 37, 105, 88, 93, 41, 120, 69, 63, 120, 5, 121, 39,
       102, 92, 102, 50, 20, 17, 127, 48, 79, 59, 44, 45, 0, 57, 89, 17, 57,
       3, 95, 100, 118, 93, 91, 53, 27, 14, 42, 37, 76, 71, 6, 114, 10, 61,
       20, 124, 86, 67, 7, 23, 106, 78, 30, 76, 42, 76, 2, 92, 84, 2, 48, 55,
       29, 102, 74, 17, 79, 5, 17, 23, 77, 36, 29, 55, 94, 40, 69, 81, 47, 21,
       93, 44, 118, 86, 107, 69, 84, 122, 73, 119, 44, 33, 76, 42, 123, 68, 4,
       69, 19, 46, 73, 110, 109, 25, 63, 60, 106, 15, 9, 113, 80, 76, 25, 126,
       20, 18, 70, 91, 17, 76, 107, 6, 68, 104, 44, 111, 120, 10, 90, 120, 6,
       100, 107, 77, 19, 69, 22, 33, 79, 7, 37, 60, 112, 110, 35, 26, 82, 60,
       97, 36, 67, 88, 96, 122, 7, 113, 17, 36, 117, 53, 5, 0, 44, 67, 77,
       109, 117, 108, 46, 9, 25, 55, 86, 10, 102, 54, 100, 116, 4, 36, 25,
       108, 86, 122, 25, 104, 22, 25, 91, 117, 95, 118, 10, 127, 11, 1, 113,
       0, 122, 37, 66, 66, 67, 54, 8, 11, 66, 81, 43, 85, 21, 80, 25, 65, 88,
       70, 7, 88, 7, 8, 17, 55, 123, 17, 114, 13, 123, 97, 66, 41, 65, 43, 85,
       35, 17, 75, 74, 15, 74, 82, 79, 9, 77, 122, 0, 20, 5, 98, 34, 69, 82,
       54, 99, 38, 75, 45, 123, 97, 19, 67, 46, 68, 58, 31, 126, 79, 57, 21,
       125, 61, 127, 83, 74, 69, 3, 74, 71, 72, 123, 24, 33, 122, 75, 87, 73,
       92, 76, 122, 89, 57, 120, 42, 20, 38, 20, 40, 122, 38, 108, 40, 90, 26,
       68, 61, 79, 37, 34, 47, 110, 84, 21, 40, 12, 110, 29, 102, 114, 42, 81,
       106, 24, 22, 56, 12, 124, 127, 39, 4, 66, 0, 5, 110, 120, 0, 112, 83,
       87, 71, 22, 28, 117, 31, 47, 123, 82, 50, 49, 30, 80, 56, 121, 93, 55,
       37, 64, 11, 43, 101, 5, 12, 23, 7, 52, 0, 50, 127, 20, 55, 87, 94, 5,
       71, 28, 124, 47, 43, 65, 44, 112, 87, 16, 0, 44, 46, 12, 97, 48, 73,
       27, 62, 45, 119, 73, 55, 70, 93, 11, 50, 20, 11, 57, 49, 67, 26, 96, 3,
       11, 36, 12, 16, 16, 58, 56, 94, 44, 97, 115, 113, 52, 40, 51, 85, 39,
       113, 100, 50, 114, 116, 93, 13, 102, 117, 43, 112, 48, 125, 65, 106, 9,
       90, 62, 55, 126, 91, 47, 112, 29, 73, 109, 79, 20, 118, 54, 36, 15, 42,
       68, 4, 66, 112, 99, 80, 104, 86, 87, 30, 78, 23, 99, 61, 29, 112, 66,
       45, 118, 54, 56, 53, 68, 108, 85, 15, 63, 110, 120, 1, 107, 89, 55, 97,
       45, 60, 112, 94, 95, 35, 25, 18, 42, 46, 19, 33, 69, 91, 121, 72, 117,
       84, 124, 124, 61, 98, 76, 101, 17, 124, 62, 118, 49, 94, 61, 44, 79,
       65, 104, 96, 121, 100, 124, 115, 4, 95, 102, 85, 55, 32, 75, 79, 88,
       23, 113, 82, 68, 22, 108, 2, 58, 122, 87, 111, 73, 39, 16, 5, 0, 104,
       29, 98, 43, 19, 40, 104, 41, 107, 57, 73, 29, 35, 101, 7, 85, 8, 4, 56,
       14, 92, 94, 81, 31, 28, 60, 102, 68, 8, 69, 78, 20, 22, 25, 0, 109, 24,
       65, 101, 24, 28, 122, 1, 64, 61, 41, 44, 33, 73, 51, 73, 16, 90, 96,
       117, 117, 43, 84, 81, 89, 15, 78, 32, 33, 12, 7, 110, 125, 43, 115, 90,
       7, 112, 99, 49, 8, 26, 91, 31, 6, 62, 93, 49, 46, 8, 120, 108, 97, 81,
       91, 111, 10, 108, 18, 92, 115, 105, 57, 90, 93, 54, 65, 104, 48, 117,
       89, 13, 21, 18, 4, 21, 80, 58, 68, 110, 118, 67, 60, 109, 56, 46, 121,
       72, 55, 31, 109, 81, 32, 34, 73, 0, 34, 50, 88, 72, 42, 112, 89, 36,
       100, 118, 90, 103, 15, 20, 65, 99, 24, 119, 119, 123, 20, 88, 99, 49,
       84, 69, 16, 83, 23, 78, 103, 24, 71, 113, 9, 69, 95, 9, 103, 39, 3, 10,
       64, 58, 86, 12, 82, 67, 0, 35, 33, 105, 25, 98, 97, 24, 14, 103, 32,
       74, 51, 34, 67, 116, 34, 0, 13, 51, 46, 76, 103, 20, 94, 62, 76, 113,
       92, 43, 121, 90, 95, 24, 108, 124, 62, 123, 31, 21, 121, 97, 21, 42,
       93, 4, 119, 26, 24, 93, 68, 59, 120, 67, 41, 16, 78, 21, 104, 46, 74,
       65, 55, 105, 95, 57, 46, 41, 126, 116, 126, 88, 97, 96, 9, 103, 58, 62,
       34, 33, 19, 14, 90, 84, 32, 95, 56, 115, 124, 117, 76, 64, 83, 62, 89,
       123, 58, 10, 34, 47, 95, 69, 12, 77, 38, 78, 1, 20, 49, 65, 113, 22,
       86, 49, 61, 22, 4, 40, 28, 80, 31, 51, 68, 21, 24, 60, 91, 85, 58, 38,
       49, 34, 42, 55, 26, 89, 82, 4, 94, 86, 73, 7, 99, 113, 70, 24, 95, 105,
       107, 4, 67, 63, 42, 32, 97, 99, 126, 98, 7, 16, 47, 6, 90, 93, 51, 53,
       102, 47, 31, 44, 56, 46, 50, 73, 3, 49, 94, 16, 17, 60, 52, 126, 32,
       98, 21, 91, 93, 118, 121, 56, 67, 46, 47, 101, 72, 13, 101, 98, 23, 18,
       38, 79, 117, 65, 84, 98, 19, 8, 63, 85, 90, 105, 71, 4, 115, 87, 91,
       35, 79, 95, 25, 125, 98, 0, 55, 52, 34, 63, 21, 125, 106, 118, 120, 3,
       13, 17, 118, 52, 124, 102, 106, 101, 35, 71, 57, 117, 121, 104, 99,
       112, 9, 81, 41, 33, 69, 94, 114, 91, 115, 118, 56, 21, 113, 2, 111, 43,
       32, 32, 33, 49, 43, 7, 73, 78, 22, 54, 109, 33, 72, 12, 30, 73, 13, 12,
       63, 110, 76, 35, 52, 114, 93, 15, 124, 49, 55, 99, 59, 66, 80, 57, 73,
       112, 120, 20, 86, 108, 60, 65, 22, 36, 108, 44, 112, 35, 86, 80, 9, 56,
       87, 66, 76, 83, 93, 110, 67, 89, 24, 37, 127, 85, 90, 88, 68, 116, 101,
       49, 33, 68, 59, 96, 67, 42, 7, 41, 100, 79, 59, 47, 70, 108, 108, 44,
       18, 28, 29, 78, 47, 76, 9, 126, 33, 120, 115, 53, 108, 57, 36, 83, 53,
       64, 21, 75, 91, 51, 28, 110, 49, 114, 36, 101, 40, 95, 17, 113, 106,
       32, 56, 120, 27, 25, 61, 12, 82, 63, 75, 20, 8, 32, 123, 77, 2, 19, 40,
       50, 42, 46, 95, 120, 17, 10, 76, 65, 7, 59, 47, 20, 92, 44, 95, 46, 11,
       45, 65, 71, 13, 71, 117, 59, 85, 56, 64, 77, 88, 62, 23, 16, 95, 83,
       40, 52, 110, 109, 101, 16, 107, 69, 123, 38, 59, 80, 102, 104, 90, 83,
       106, 73, 21, 119, 22, 28, 92, 127, 117, 56, 24, 81, 52, 16, 69, 3, 39,
       20, 118, 69, 101, 30, 76, 101, 42, 19, 64, 84, 29, 115, 40, 88, 54,
       118, 94, 105, 106, 109, 12, 5, 44, 65, 127, 38, 21, 56, 12, 93, 36, 93,
       104, 26, 80, 21, 78, 8, 67, 94, 87, 105, 40, 11, 3, 17, 119, 17, 78,
       126, 109, 9, 22, 73, 33, 112, 113, 21, 6, 87, 111, 43, 40, 82, 34, 59,
       60, 19, 94, 114, 14, 64, 40, 125, 37, 76, 32, 122, 84, 83, 39, 7, 66,
       0, 68, 126, 56, 85, 33, 101, 0, 107, 67, 46, 8, 90, 33, 82, 76, 7, 93,
       68, 99, 119, 103, 71, 56, 100, 85, 8, 61, 53, 59, 64, 60, 71, 110, 108,
       95, 62, 41, 72, 5, 66, 27, 86, 84, 74, 21, 50, 74, 36, 127, 110, 77,
       45, 62, 91, 4, 34, 18, 126, 53, 27, 68, 53, 109, 47, 13, 112, 27, 93,
       53, 33, 90, 31, 74, 95, 74, 57, 15, 23, 110, 14, 85, 92, 91, 84, 86,
       103, 92, 9, 93, 61, 113, 18, 51, 72, 12, 29, 123, 29, 72, 71, 126, 21,
       95, 101, 21, 21, 8, 34, 16, 96, 90, 33, 27, 38, 10, 100, 111, 72, 91,
       103, 103, 111, 114, 123, 109, 11, 54, 50, 126, 58, 109, 36, 66, 111,
       116, 50, 124, 118, 27, 9, 49, 56, 58, 80, 96, 100, 65, 61, 89, 115, 35,
       38, 95, 45, 125, 24, 34, 24, 104, 62, 28, 93, 70, 24, 110, 62, 41, 55,
       18, 125, 47, 63, 28, 103, 33, 30, 121, 114, 60, 3, 70, 19, 76, 81, 30,
       67, 127, 67, 7, 79, 80, 44, 59, 84, 99, 50, 66, 74, 3, 91, 79, 39, 29,
       97, 107, 105, 19, 126, 124, 8, 24, 54, 25, 20, 118, 21, 14, 60, 102,
       99, 37, 16, 4, 101, 108, 108, 18, 123, 111, 96, 65, 26, 44, 91, 83, 73,
       48, 34, 122, 101, 2, 42, 48, 107, 27, 112, 110, 50, 38, 17, 54, 104,
       123, 20, 38, 15, 110, 112, 13, 30, 12, 33, 50, 50, 96, 92, 34, 24, 23,
       40, 93, 8, 108, 32, 72, 95, 113, 81, 65, 76, 93, 114, 121, 3, 105, 36,
       58, 81, 58, 46, 65, 125, 97, 28, 92, 122, 50, 93, 125, 86, 37, 120, 87,
       55, 62, 43, 8, 55, 51, 94, 76, 105, 112, 80, 81, 101, 122, 85, 3, 99,
       124, 16, 2, 106, 63, 68, 45, 41, 109, 16, 77, 77, 53, 28, 37, 46, 61,
       69, 110, 26, 102, 29, 49, 9, 18, 44, 25, 105, 71, 31, 92, 34, 12, 17,
       34, 77, 53, 94, 61, 23, 13, 105, 83, 1, 13, 14, 64, 12, 113, 100, 54,
       10, 84, 93, 16, 26, 109, 38, 55, 12, 88, 103, 16, 47, 85, 119, 20, 88,
       91, 72, 110, 58, 3, 72, 63, 74, 36, 124, 52, 28, 62, 22, 109, 127, 76,
       88, 49, 80, 113, 60, 67, 1, 93, 28, 120, 102, 32, 34, 96, 77, 123, 62,
       72, 22, 14, 7, 100, 8, 111, 91, 43, 30, 100, 65, 117, 73, 100, 97, 67,
       20, 122, 54, 123, 96, 68, 85, 18, 60, 56, 81, 86, 100, 52, 112, 109,
       67, 37, 12, 41, 16, 62, 85, 98, 87, 121, 56, 17, 89, 23, 27, 12, 50,
       28, 48, 96, 95, 32, 123, 106, 35, 96, 12, 7, 47, 56, 110, 81, 127, 0,
       7, 101, 43, 98, 60, 63, 114, 84, 72, 101, 54, 22, 124, 72, 93, 21, 114,
       96, 103, 53, 125, 19, 87, 44, 99, 117, 64, 64, 86, 35, 120, 37, 121,
       103, 115, 76, 86, 78, 63, 65, 53, 97, 50, 80, 121, 95, 85, 53, 102, 20,
       85, 21, 12, 26, 57, 19, 44, 74, 123, 86, 88, 118, 46, 6, 65, 58, 114,
       1, 67, 110, 90, 110, 46, 67, 54, 95, 98, 111, 25, 97, 86, 78>>)
    @@
    (5 :> <<
       79, 32, 94, 45, 101, 88, 120, 107, 94, 83, 118, 67, 3, 107, 59, 99,
       120, 31, 83, 6, 115, 20, 14, 47, 60, 111, 31, 48, 69, 13, 73, 31, 1,
       93, 27, 52, 35, 23, 117, 111, 98, 49, 20, 97, 102, 9, 17, 79, 79, 56,
       16, 16, 0, 124, 111, 0, 26, 99, 27, 122, 125, 21, 111, 21, 37, 40, 123,
       25, 69, 112, 86, 80, 26, 23, 120, 123, 88, 25, 123, 123, 114, 49, 38,
       2, 46, 53, 21, 119, 18, 33, 8, 42, 38, 104, 77, 75, 0, 76, 86, 90, 43,
       8, 39, 45, 104, 39, 61, 89, 40, 23, 61, 60, 90, 22, 7, 32, 124, 120, 2,
       121, 95, 45, 108, 51, 2, 70, 100, 53, 46, 48, 74, 107, 1, 57, 5, 90,
       23, 79, 122, 122, 25, 15, 96, 31, 118, 104, 120, 59, 44, 65, 45, 114,
       67, 32, 99, 59, 13, 75, 95, 99, 102, 47, 110, 37, 4, 55, 121, 125, 11,
       26, 43, 65, 78, 46, 117, 18, 43, 35, 118, 89, 69, 11, 39, 87, 40, 39,
       22, 102, 10, 80, 19, 92, 88, 39, 127, 61, 20, 92, 6, 10, 126, 76, 68,
       118, 51, 4, 30, 94, 76, 44, 105, 32, 58, 83, 53, 18, 7, 125, 117, 81,
       4, 102, 63, 42, 107, 26, 16, 125, 93, 72, 121, 16, 80, 114, 100, 52,
       13, 21, 55, 47, 19, 7, 108, 53, 37, 18, 58, 118, 127, 79, 109, 21, 124,
       66, 58, 122, 62, 88, 93, 40, 61, 35, 37, 60, 51, 115, 18, 14, 48, 105,
       126, 68, 122, 22, 80, 119, 63, 111, 43, 23, 11, 62, 34, 65, 100, 70,
       111, 64, 46, 8, 100, 101, 99, 45, 88, 75, 84, 4, 97, 39, 46, 71, 90,
       85, 35, 106, 62, 33, 98, 125, 88, 91, 37, 122, 121, 43, 83, 22, 74,
       109, 1, 60, 70, 99, 32, 41, 85, 35, 59, 36, 104, 64, 82, 86, 102, 45,
       44, 35, 82, 44, 94, 120, 106, 52, 44, 118, 107, 22, 111, 110, 88, 57,
       124, 46, 122, 42, 66, 18, 67, 125, 21, 25, 107, 46, 119, 109, 61, 36,
       88, 10, 92, 85, 93, 53, 21, 78, 99, 119, 74, 66, 85, 119, 53, 38, 79,
       70, 99, 110, 81, 34, 92, 127, 3, 25, 20, 75, 56, 79, 83, 23, 28, 97,
       87, 23, 80, 91, 5, 126, 60, 125, 28, 21, 6, 114, 17, 14, 40, 123, 23,
       61, 24, 70, 4, 53, 59, 44, 48, 84, 78, 9, 75, 26, 30, 91, 115, 47, 0,
       44, 51, 121, 35, 109, 52, 110, 14, 88, 106, 70, 47, 123, 4, 70, 78, 38,
       12, 37, 69, 65, 43, 121, 74, 37, 122, 45, 104, 16, 53, 52, 104, 72, 82,
       68, 47, 59, 18, 20, 76, 48, 72, 61, 122, 25, 123, 17, 77, 11, 44, 105,
       114, 84, 0, 48, 13, 41, 72, 117, 78, 69, 18, 41, 80, 112, 114, 72, 48,
       54, 55, 125, 28, 63, 37, 61, 124, 90, 48, 49, 123, 109, 116, 20, 76,
       76, 33, 94, 125, 38, 63, 32, 53, 2, 40, 120, 125, 39, 62, 118, 36, 18,
       61, 3, 15, 84, 79, 122, 56, 31, 37, 5, 100, 17, 105, 50, 1, 61, 68, 71,
       35, 31, 119, 60, 100, 4, 31, 62, 34, 108, 19, 92, 126, 36, 37, 63, 77,
       127, 60, 66, 82, 110, 77, 112, 95, 114, 15, 2, 97, 16, 38, 36, 68, 90,
       43, 78, 37, 93, 67, 3, 59, 44, 46, 87, 95, 104, 75, 16, 4, 0, 32, 70,
       58, 87, 117, 13, 113, 87, 69, 24, 1, 54, 99, 103, 54, 76, 73, 88, 90,
       122, 80, 83, 61, 109, 116, 107, 49, 60, 50, 87, 109, 92, 25, 115, 37,
       59, 106, 97, 8, 38, 107, 0, 88, 99, 55, 74, 36, 82, 99, 60, 116, 39,
       18, 21, 61, 88, 70, 113, 63, 124, 42, 68, 19, 54, 74, 69, 103, 6, 8,
       93, 29, 34, 104, 10, 101, 8, 84, 120, 3, 42, 92, 54, 125, 8, 127, 51,
       89, 62, 6, 15, 107, 15, 28, 78, 82, 105, 121, 14, 91, 114, 17, 127, 37,
       90, 117, 56, 19, 23, 78, 23, 52, 102, 20, 8, 79, 27, 5, 71, 13, 84, 48,
       95, 9, 35, 7, 73, 73, 15, 95, 51, 112, 79, 17, 1, 55, 11, 40, 87, 76,
       62, 62, 45, 120, 83, 47, 117, 7, 17, 89, 37, 19, 72, 80, 86, 64, 37,
       116, 120, 71, 70, 79, 28, 33, 8, 70, 30, 32, 106, 96, 36, 66, 124, 17,
       103, 30, 110, 47, 58, 94, 49, 22, 16, 91, 2, 83, 43, 10, 73, 85, 4, 11,
       110, 15, 64, 76, 58, 30, 49, 112, 59, 61, 123, 41, 13, 101, 67, 3, 69,
       92, 49, 6, 108, 19, 120, 121, 54, 87, 101, 28, 95, 14, 10, 124, 116,
       85, 62, 105, 27, 17, 89, 79, 48, 45, 106, 30, 37, 42, 119, 78, 90, 44,
       101, 49, 48, 17, 92, 106, 45, 82, 37, 102, 80, 55, 123, 109, 46, 66, 4,
       75, 127, 73, 27, 94, 23, 50, 8, 12, 4, 4, 23, 25, 25, 5, 62, 113, 119,
       61, 84, 97, 44, 0, 54, 60, 38, 113, 119, 79, 117, 54, 41, 59, 59, 12,
       24, 19, 83, 20, 9, 47, 111, 49, 111, 112, 60, 19, 70, 32, 14, 35, 104,
       20, 96, 36, 86, 30, 4, 61, 114, 4, 44, 118, 96, 47, 40, 120, 7, 88, 2,
       86, 58, 60, 108, 121, 19, 15, 100, 85, 41, 37, 58, 86, 30, 93, 127, 20,
       4, 25, 91, 3, 73, 29, 84, 10, 79, 51, 116, 124, 90, 46, 87, 39, 23, 59,
       46, 36, 8, 93, 127, 91, 59, 20, 99, 30, 22, 86, 26, 120, 5, 82, 77, 55,
       92, 124, 34, 0, 59, 7, 57, 99, 87, 52, 21, 5, 4, 70, 106, 126, 107, 66,
       72, 44, 120, 12, 91, 9, 30, 115, 102, 62, 11, 119, 60, 6, 87, 31, 82,
       6, 63, 50, 100, 7, 6, 32, 106, 52, 57, 39, 81, 6, 112, 4, 121, 124, 24,
       22, 89, 65, 81, 51, 24, 68, 29, 10, 118, 40, 101, 13, 11, 69, 126, 117,
       20, 76, 9, 109, 93, 27, 79, 2, 56, 69, 45, 62, 54, 73, 98, 48, 66, 80,
       16, 92, 1, 116, 96, 39, 88, 57, 114, 105, 127, 28, 70, 14, 17, 39, 61,
       11, 99, 98, 33, 104, 51, 40, 16, 16, 68, 10, 60, 31, 89, 10, 102, 54,
       123, 73, 85, 31, 35, 7, 63, 89, 31, 6, 90, 25, 101, 36, 112, 47, 113,
       12, 9, 53, 98, 40, 48, 96, 98, 71, 0, 114, 36, 83, 120, 97, 16, 73, 3,
       56, 18, 104, 88, 83, 100, 122, 2, 93, 6, 89, 54, 34, 13, 103, 103, 48,
       71, 16, 41, 8, 39, 21, 17, 33, 63, 86, 41, 36, 4, 8, 69, 97, 94, 71, 3,
       3, 15, 6, 124, 16, 105, 45, 55, 110, 33, 121, 121, 78, 2, 29, 67, 54,
       16, 46, 25, 42, 45, 1, 20, 74, 79, 105, 20, 93, 125, 12, 34, 67, 77,
       21, 80, 90, 18, 57, 97, 120, 55, 101, 54, 15, 42, 40, 57, 117, 29, 59,
       76, 55, 21, 56, 6, 98, 85, 119, 20, 68, 60, 124, 62, 76, 0, 13, 16,
       104, 108, 53, 87, 6, 26, 125, 0, 4, 116, 73, 30, 61, 90, 112, 45, 50,
       59, 27, 25, 35, 105, 25, 38, 71, 66, 45, 97, 96, 100, 30, 46, 45, 103,
       31, 104, 125, 84, 107, 116, 108, 7, 79, 63, 51, 44, 18, 18, 106, 30,
       62, 48, 4, 12, 21, 50, 12, 96, 91, 36, 115, 117, 25, 101, 102, 96, 41,
       61, 87, 60, 110, 68, 79, 11, 102, 25, 48, 88, 1, 13, 65, 77, 75, 79,
       23, 104, 49, 2, 40, 86, 3, 78, 39, 65, 49, 64, 60, 69, 90, 88, 51, 57,
       125, 100, 104, 74, 118, 119, 88, 71, 85, 7, 68, 18, 102, 53, 46, 122,
       75, 2, 86, 98, 66, 26, 36, 36, 9, 3, 11, 99, 45, 78, 74, 110, 97, 120,
       91, 52, 39, 123, 118, 1, 35, 118, 91, 30, 9, 4, 96, 11, 85, 123, 122,
       38, 114, 44, 88, 102, 107, 119, 94, 77, 78, 71, 26, 61, 66, 11, 114,
       15, 30, 43, 124, 100, 69, 54, 50, 124, 0, 85, 49, 48, 22, 96, 83, 67,
       115, 26, 116, 86, 78, 41, 49, 41, 13, 107, 88, 113, 70, 88, 91, 125,
       47, 31, 113, 12, 27, 37, 39, 102, 34, 102, 79, 9, 114, 121, 21, 9, 80,
       52, 98, 23, 28, 83, 8, 72, 72, 80, 106, 81, 112, 69, 93, 52, 53, 29,
       54, 61, 67, 76, 115, 31, 38, 53, 35, 10, 77, 113, 123, 42, 23, 53, 3,
       19, 14, 37, 72, 71, 77, 72, 23, 55, 24, 41, 76, 13, 82, 100, 88, 42,
       93, 9, 7, 121, 62, 17, 106, 66, 122, 9, 40, 24, 108, 59, 82, 49, 118,
       115, 29, 114, 89, 78, 107, 102, 61, 107, 12, 0, 24, 86, 20, 14, 11, 42,
       19, 47, 78, 97, 13, 73, 97, 56, 94, 41, 104, 98, 102, 23, 91, 114, 118,
       70, 122, 74, 80, 111, 123, 111, 13, 46, 13, 104, 8, 25, 26, 41, 47, 22,
       58, 114, 87, 126, 95, 97, 10, 31, 51, 120, 69, 59, 48, 0, 15, 125, 76,
       123, 47, 16, 87, 0, 63, 48, 123, 43, 120, 95, 9, 62, 97, 120, 92, 91,
       37, 2, 14, 103, 61, 127, 45, 96, 94, 25, 117, 43, 48, 18, 37, 115, 63,
       82, 89, 98, 100, 11, 73, 14, 37, 52, 43, 120, 108, 8, 66, 55, 6, 28,
       53, 126, 30, 34, 85, 92, 9, 18, 34, 123, 12, 70, 61, 55, 126, 23, 69,
       108, 49, 109, 119, 31, 11, 57, 45, 16, 103, 10, 0, 104, 98, 18, 46,
       103, 2, 2, 32, 71, 58, 122, 49, 111, 66, 10, 6, 124, 27, 24, 124, 102,
       56, 1, 60, 66, 10, 122, 35, 76, 122, 107, 87, 60, 65, 2, 6, 20, 50, 98,
       99, 64, 55, 110, 75, 120, 115, 84, 82, 79, 81, 75, 4, 27, 3, 53, 98,
       92, 52, 103, 111, 105, 105, 55, 117, 114, 48, 1, 127, 104, 96, 21, 114,
       43, 18, 38, 99, 24, 54, 106, 124, 9, 127, 47, 27, 50, 53, 24, 34, 17,
       60, 46, 36, 0, 85, 81, 15, 98, 21, 97, 58, 9, 9, 87, 48, 4, 114, 52,
       113, 19, 25, 82, 2, 95, 106, 63, 122, 40, 76, 58, 17, 59, 30, 9, 117,
       46, 120, 79, 3, 1, 23, 103, 54, 10, 34, 16, 96, 83, 47, 42, 99, 27, 19,
       37, 66, 114, 124, 114, 89, 71, 11, 36, 14, 13, 82, 51, 47, 38, 47, 116,
       61, 70, 74, 56, 123, 111, 30, 123, 72, 17, 33, 2, 69, 1, 93, 49, 17,
       30, 61, 85, 90, 7, 1, 1, 98, 27, 53, 29, 64, 91, 78, 30, 101, 39, 7,
       102, 64, 30, 4, 88, 49, 113, 44, 99, 2, 71, 38, 56, 57, 13, 83, 15,
       118, 115, 47, 72, 67, 35, 91, 74, 119, 76, 121, 49, 126, 48, 38, 108,
       21, 75, 119, 87, 9, 82, 57, 7, 94, 27, 67, 79, 49, 12, 118, 65, 38,
       104, 70, 47, 106, 52, 17, 58, 44, 8, 63, 0, 72, 72, 26, 72, 58, 5, 7,
       94, 11, 14, 43, 113, 18, 47, 123, 43, 33, 104, 35, 61, 100, 18, 94, 15,
       33, 32, 106, 3, 80, 32, 49, 21, 80, 101, 31, 89, 33, 75, 112, 112, 56,
       117, 114, 107, 22, 76, 17, 72, 6, 115, 94, 45, 71, 15, 1, 58, 5, 88,
       105, 78, 63, 86, 111, 83, 5, 3, 75, 52, 15, 52, 92, 67, 78, 56, 78, 73,
       28, 68, 121, 89, 14, 90, 8, 92, 87, 75, 11, 5, 8, 91, 58, 38, 83, 67,
       114, 69, 92, 107, 8, 122, 82, 87, 107, 34, 15, 51, 96, 39, 33, 58, 38,
       38, 0, 112, 97, 41, 66, 84, 115, 63, 59, 48, 19, 83, 27, 120, 33, 40,
       121, 78, 26, 58, 11, 19, 45, 127, 10, 81, 54, 56, 79, 66, 83, 50, 22,
       25, 17, 117, 62, 21, 87, 64, 57, 119, 73, 44, 116, 2, 18, 55, 34, 72,
       63, 64, 68, 121, 115, 27, 71, 30, 84, 21, 53, 70, 100, 32, 106, 40, 37,
       78, 13, 25, 33, 54, 45, 108, 113, 66, 33, 62, 80, 90, 82, 11, 122, 104,
       14, 88, 98, 14, 43, 12, 13, 111, 80, 36, 108, 96, 74, 22, 6, 99, 124,
       69, 49, 22, 81, 42, 92, 98, 33, 12, 52, 109, 42, 112, 12, 39, 8, 37,
       91, 43, 52, 127, 111, 52, 8, 8, 38, 8, 23, 5, 120, 12, 101, 94, 114,
       122, 64, 52, 13, 59, 53, 9, 28, 53, 3, 120, 72, 69, 37, 83, 13, 87, 65,
       41, 119, 46, 121, 9, 59, 48, 13, 21, 98, 31, 14, 78, 68, 12, 10, 83,
       126, 84, 69, 48, 55, 14, 34, 39, 70, 58, 124, 105, 54, 5, 26, 112, 65,
       125, 117, 17, 48, 84, 81, 23, 117, 24, 41, 112, 103, 91, 67, 9, 17, 39,
       6, 109, 120, 82, 59, 39, 56, 70, 117, 102, 73, 81, 64, 32, 36, 21, 95,
       80, 32, 58, 60, 51, 97, 90, 77, 12, 17, 76, 25, 58, 88, 121, 93, 98,
       13, 56, 127, 29, 17, 31, 21, 82, 11, 92, 57, 32, 79, 59, 109, 86, 20,
       102, 89, 61, 13, 38, 74, 113, 32, 80, 45, 89, 6, 69, 92, 71, 15, 26,
       97, 3, 43, 73, 75, 61, 81, 107, 62, 111, 111, 66, 117, 77, 36, 77, 42,
       7, 112, 36, 17, 67, 53, 37, 53, 47, 124, 98, 16, 37, 83, 24, 96, 121,
       93, 4, 0, 62, 120, 20, 39, 123, 109, 53, 84, 36, 53, 105, 107, 75, 86,
       59, 43, 117, 93, 67, 64, 41, 91, 88, 78, 101, 101, 1, 20, 73, 63, 83,
       0, 68, 101, 61, 98, 59, 107, 47, 5, 29, 68, 0, 61, 124, 15, 94, 25, 21,
       124, 21, 109, 64, 30, 85, 106, 51, 83, 13, 49, 53, 82, 110, 29, 82, 35,
       117, 1, 26, 84, 30, 74, 8, 95, 119, 64, 47, 55, 74, 39, 28, 94, 12, 47,
       71, 76, 70, 96, 103, 56, 100, 87, 93, 7, 114, 33, 67, 107, 0, 18, 54,
       7, 59, 1, 24, 98, 24, 13, 22, 58, 113, 56, 115, 102, 60, 61, 37, 66, 9,
       3, 98, 101, 89, 98, 78, 79, 59, 106, 79, 78, 77, 91, 116, 108, 108, 79,
       26, 2, 83, 113, 56, 126, 64, 25, 123, 8, 89, 43, 25, 12, 68, 47, 113,
       11, 22, 28, 50, 0, 4, 54, 7, 38, 24, 93, 111, 49, 50, 21, 98, 122, 14,
       114, 49, 88, 24, 27, 16, 51, 115, 57, 18, 52, 122, 3, 35, 58, 67, 98,
       25, 88, 88, 110, 107, 87, 34, 97, 11, 111, 29, 117, 54, 101, 104, 53,
       105, 84, 115, 84, 71, 112, 105, 91, 94, 56, 93, 24, 25, 41, 74, 32, 91,
       87, 110, 98, 5, 24, 105, 68, 124, 107, 20, 46, 81, 12, 90, 77, 55, 46,
       104, 18, 80, 36, 23, 0, 69, 19, 90, 54, 121, 13, 95, 0, 89, 70, 59,
       122, 106, 106, 114, 41, 92, 118, 113, 10, 62, 19, 47, 0, 126, 7, 92,
       77, 47, 96, 113, 61, 33, 102, 73, 57, 113, 117, 42, 77, 124, 68, 52,
       21, 50, 54, 71, 56, 125, 105, 2, 29, 61, 37, 13, 104, 65, 9, 99, 68,
       61, 28, 10, 85, 83, 76, 40, 12, 10, 93, 41, 52, 22, 41, 44, 109, 98,
       99, 5, 39, 80, 86, 99, 15, 118, 66, 113, 10, 97, 82, 111, 117, 87, 81,
       10, 5, 62, 65, 112, 60, 27, 56, 38, 19, 54, 35, 78, 57, 73, 9, 124, 86,
       66, 31, 112, 37, 106, 11, 75, 38, 9, 119, 48, 37, 52, 12, 20, 44, 80,
       120, 54, 11, 126, 43, 111, 26, 45, 87, 13, 59, 41, 12, 106, 110, 63,
       41, 4, 87, 123, 57, 89, 111, 119, 7, 76, 29, 113, 36, 39, 33, 58, 105,
       113, 64, 67, 44, 65, 64, 11, 108, 65, 72, 112, 57, 52, 84, 25, 78, 93,
       51, 119, 54, 15, 16, 8, 56, 41, 112, 4, 39, 100, 46, 53, 77, 120, 75,
       13, 22, 1, 57, 18, 93, 39, 5, 72, 13, 75, 96, 89, 115, 6, 8, 118, 10,
       37, 80, 37, 36, 55, 84, 29, 4, 55, 58, 37, 20, 88, 42, 67, 88, 127, 65,
       72, 109, 50, 107, 59, 79, 59, 108, 4, 22, 46, 60, 127, 40, 108, 79, 11,
       14, 56, 113, 34, 47, 117, 100, 43, 120, 80, 120, 14, 49, 51, 109, 57,
       127, 33, 16, 18, 95, 102, 93, 69, 58, 45, 35, 23, 22, 125, 52, 1, 119,
       87, 51, 40, 32, 24, 79, 19, 55, 116, 78, 66, 58, 15, 36, 48, 4, 24,
       104, 24, 84, 51, 31, 88, 63, 112, 74, 85, 64, 3, 115, 14, 99, 70, 39,
       12, 43, 43, 78, 44, 20, 108, 119, 1, 5, 25, 63, 4, 34, 60, 67, 26, 5,
       117, 28, 127, 126, 42, 100, 40, 28, 47, 58, 2, 4, 89, 15, 97, 24, 13,
       125, 88, 39, 15, 31, 115, 8, 81, 14, 98, 127, 114, 94, 74, 117, 117,
       106, 44, 100, 43, 32, 52, 21, 99, 34, 39, 8, 50, 22, 30, 92, 123, 62,
       107, 1, 98, 39, 60, 108, 29, 108, 7, 93, 95, 93, 96>>)
    @@
    (6 :> <<
       101, 73, 105, 10, 62, 97, 33, 4, 0, 18, 84, 75, 60, 123, 97, 94, 47,
       40, 98, 2, 34, 62, 102, 25, 93, 111, 52, 116, 68, 69, 87, 12, 24, 72,
       70, 89, 103, 93, 33, 84, 102, 78, 87, 11, 108, 54, 42, 126, 11, 46,
       102, 52, 103, 32, 56, 89, 12, 96, 25, 89, 81, 101, 37, 12, 121, 5, 75,
       115, 25, 105, 83, 116, 46, 62, 119, 106, 116, 24, 65, 73, 82, 124, 89,
       114, 103, 64, 124, 117, 3, 81, 46, 31, 77, 55, 38, 45, 75, 15, 11, 64,
       112, 86, 67, 25, 14, 77, 84, 34, 39, 92, 25, 48, 61, 28, 17, 76, 26,
       106, 110, 112, 89, 66, 1, 24, 99, 21, 2, 82, 42, 71, 115, 85, 79, 79,
       39, 47, 48, 67, 49, 37, 16, 86, 127, 62, 6, 23, 54, 76, 95, 127, 50,
       12, 125, 56, 31, 103, 125, 11, 114, 77, 85, 111, 113, 57, 57, 100, 106,
       48, 101, 9, 66, 54, 60, 38, 90, 104, 52, 120, 10, 24, 95, 87, 34, 57,
       62, 92, 100, 123, 22, 2, 2, 68, 15, 32, 75, 102, 46, 24, 32, 64, 57,
       42, 118, 66, 32, 125, 52, 118, 112, 53, 78, 62, 34, 77, 60, 84, 61, 62,
       18, 92, 48, 63, 39, 81, 103, 59, 41, 46, 84, 20, 124, 116, 118, 79, 48,
       88, 77, 34, 40, 82, 50, 124, 62, 93, 101, 20, 119, 105, 37, 71, 0, 79,
       57, 123, 7, 23, 3, 78, 99, 72, 14, 87, 91, 47, 46, 125, 120, 63, 109,
       75, 7, 117, 24, 19, 121, 34, 78, 1, 54, 103, 100, 102, 104, 67, 62, 9,
       60, 29, 12, 47, 46, 123, 18, 87, 80, 31, 77, 40, 18, 4, 80, 85, 12, 91,
       13, 5, 82, 61, 59, 92, 115, 8, 80, 3, 89, 70, 16, 78, 106, 118, 10, 20,
       79, 80, 116, 33, 116, 107, 114, 83, 57, 63, 88, 2, 101, 81, 17, 104,
       120, 24, 116, 119, 56, 61, 99, 56, 57, 71, 35, 61, 91, 74, 8, 106, 102,
       37, 125, 46, 36, 46, 120, 4, 10, 64, 109, 35, 35, 35, 123, 60, 55, 56,
       118, 47, 4, 91, 10, 31, 104, 77, 81, 30, 68, 95, 4, 94, 22, 43, 47, 4,
       6, 121, 127, 94, 97, 96, 121, 26, 89, 55, 43, 113, 9, 20, 93, 86, 14,
       51, 70, 17, 59, 95, 63, 81, 9, 16, 9, 44, 66, 125, 3, 23, 67, 90, 19,
       23, 36, 94, 19, 64, 72, 108, 49, 101, 28, 120, 28, 89, 72, 91, 116, 16,
       53, 88, 20, 96, 40, 127, 30, 71, 73, 0, 100, 103, 72, 49, 24, 97, 41,
       109, 48, 67, 56, 1, 50, 108, 127, 67, 70, 108, 84, 17, 91, 29, 82, 69,
       103, 95, 47, 34, 85, 23, 124, 19, 21, 88, 80, 17, 49, 9, 7, 1, 5, 60,
       97, 7, 14, 83, 91, 69, 12, 86, 47, 76, 4, 7, 69, 28, 100, 52, 28, 97,
       72, 88, 118, 121, 37, 11, 60, 9, 92, 73, 110, 7, 21, 114, 84, 56, 15,
       122, 14, 89, 125, 22, 6, 87, 117, 3, 96, 107, 86, 127, 93, 54, 83, 90,
       36, 32, 56, 29, 25, 104, 109, 83, 99, 68, 100, 82, 27, 35, 75, 1, 32,
       67, 101, 93, 95, 124, 127, 124, 90, 111, 87, 42, 99, 66, 11, 74, 76,
       82, 4, 46, 46, 88, 14, 28, 121, 97, 3, 46, 117, 88, 121, 43, 55, 87,
       106, 124, 6, 44, 17, 3, 1, 43, 8, 62, 0, 59, 106, 33, 11, 86, 75, 78,
       34, 29, 16, 16, 53, 69, 23, 31, 125, 84, 49, 125, 76, 54, 72, 66, 80,
       106, 61, 118, 34, 32, 17, 38, 113, 4, 24, 97, 57, 13, 103, 22, 73, 13,
       121, 118, 103, 0, 65, 20, 15, 19, 75, 50, 60, 62, 110, 111, 67, 98, 88,
       69, 103, 101, 60, 27, 107, 82, 115, 49, 19, 98, 117, 58, 111, 116, 109,
       1, 43, 53, 32, 40, 17, 36, 47, 75, 109, 86, 46, 28, 0, 99, 39, 22, 10,
       52, 79, 79, 98, 29, 118, 82, 11, 24, 48, 52, 16, 96, 116, 116, 107, 18,
       66, 118, 122, 6, 66, 67, 99, 123, 62, 117, 46, 113, 127, 42, 107, 91,
       75, 49, 111, 34, 83, 84, 102, 123, 8, 33, 16, 5, 14, 75, 77, 78, 92,
       126, 19, 104, 64, 64, 14, 100, 88, 97, 99, 123, 11, 11, 125, 106, 85,
       96, 15, 27, 44, 43, 20, 124, 93, 104, 117, 31, 22, 123, 23, 28, 80, 16,
       110, 61, 94, 118, 58, 79, 14, 92, 78, 17, 58, 124, 102, 25, 73, 47, 93,
       18, 124, 42, 80, 33, 116, 8, 35, 96, 0, 7, 112, 83, 3, 61, 127, 80, 58,
       40, 7, 1, 35, 114, 92, 12, 49, 119, 79, 43, 13, 94, 106, 109, 47, 18,
       106, 96, 18, 47, 85, 97, 60, 95, 51, 100, 2, 121, 68, 113, 107, 19, 13,
       126, 57, 47, 1, 114, 127, 120, 124, 16, 86, 70, 61, 33, 9, 61, 15, 51,
       90, 25, 101, 69, 126, 124, 110, 21, 56, 42, 32, 102, 69, 99, 44, 37,
       69, 88, 113, 34, 57, 71, 125, 113, 91, 98, 5, 64, 95, 31, 84, 126, 79,
       124, 0, 67, 112, 104, 63, 71, 68, 32, 21, 108, 4, 41, 1, 109, 26, 73,
       38, 24, 19, 35, 7, 34, 93, 38, 89, 125, 112, 47, 27, 90, 93, 21, 76, 0,
       11, 104, 112, 105, 45, 73, 23, 44, 23, 61, 118, 81, 28, 60, 49, 113,
       70, 79, 45, 15, 83, 93, 11, 124, 55, 6, 74, 114, 79, 26, 77, 56, 34,
       28, 81, 125, 124, 7, 61, 84, 82, 64, 107, 67, 32, 66, 34, 81, 124, 46,
       38, 100, 54, 95, 47, 12, 127, 97, 69, 53, 114, 82, 20, 120, 35, 7, 83,
       64, 40, 104, 84, 125, 64, 7, 10, 85, 14, 7, 56, 55, 68, 11, 22, 87, 33,
       45, 0, 8, 34, 91, 39, 44, 49, 51, 75, 90, 109, 106, 91, 9, 94, 14, 36,
       102, 63, 57, 93, 32, 114, 39, 30, 98, 1, 117, 6, 99, 65, 69, 111, 48,
       19, 28, 100, 37, 82, 83, 110, 95, 115, 1, 13, 33, 101, 123, 17, 71, 15,
       3, 51, 32, 62, 27, 8, 93, 35, 97, 22, 113, 17, 19, 12, 109, 3, 101, 27,
       76, 41, 114, 53, 115, 88, 60, 78, 73, 62, 57, 41, 123, 78, 58, 24, 102,
       22, 68, 14, 28, 85, 105, 17, 50, 28, 75, 45, 59, 72, 98, 82, 35, 75,
       107, 76, 109, 24, 72, 116, 28, 94, 3, 52, 31, 50, 125, 73, 95, 15, 117,
       82, 4, 115, 40, 46, 102, 63, 82, 32, 127, 116, 55, 48, 38, 46, 67, 91,
       75, 47, 74, 115, 7, 52, 81, 75, 23, 39, 37, 75, 85, 60, 30, 13, 58,
       113, 73, 20, 46, 73, 54, 86, 123, 59, 102, 41, 9, 58, 55, 127, 62, 1,
       109, 113, 13, 77, 8, 61, 55, 81, 7, 81, 3, 106, 93, 124, 105, 65, 67,
       44, 127, 46, 20, 116, 22, 61, 68, 9, 51, 75, 76, 14, 3, 44, 104, 83,
       29, 78, 94, 68, 32, 106, 118, 77, 66, 124, 112, 103, 118, 33, 106, 100,
       49, 46, 90, 120, 0, 79, 44, 53, 38, 22, 63, 108, 100, 45, 4, 2, 69,
       102, 26, 0, 99, 5, 105, 3, 60, 82, 13, 71, 53, 61, 41, 119, 112, 60,
       25, 26, 47, 127, 18, 14, 27, 6, 119, 28, 111, 124, 34, 53, 28, 45, 60,
       47, 19, 47, 88, 96, 113, 81, 92, 35, 107, 24, 95, 104, 115, 71, 7, 64,
       25, 25, 51, 124, 117, 67, 119, 117, 5, 86, 54, 81, 122, 3, 117, 117,
       120, 109, 81, 9, 93, 10, 15, 86, 77, 85, 101, 24, 64, 126, 96, 12, 66,
       72, 72, 61, 124, 42, 113, 85, 23, 56, 26, 98, 109, 98, 123, 1, 28, 41,
       27, 69, 72, 37, 19, 76, 0, 3, 37, 13, 51, 65, 112, 27, 85, 26, 93, 52,
       71, 76, 69, 83, 96, 76, 118, 63, 11, 55, 110, 111, 76, 110, 69, 114,
       21, 120, 17, 85, 77, 25, 80, 89, 108, 36, 53, 38, 89, 51, 84, 4, 124,
       56, 27, 25, 38, 29, 94, 55, 46, 96, 6, 83, 117, 40, 46, 92, 45, 51, 55,
       45, 67, 52, 106, 36, 100, 19, 77, 123, 83, 76, 32, 83, 25, 78, 59, 64,
       22, 80, 70, 0, 19, 8, 28, 68, 32, 59, 77, 1, 123, 27, 69, 39, 7, 123,
       110, 107, 71, 5, 62, 49, 15, 44, 41, 17, 111, 37, 69, 126, 0, 117, 74,
       34, 101, 99, 110, 16, 34, 80, 41, 11, 95, 82, 67, 76, 44, 127, 15, 74,
       77, 116, 0, 31, 39, 79, 126, 26, 26, 8, 55, 125, 115, 3, 78, 45, 101,
       40, 116, 25, 118, 109, 73, 96, 52, 48, 101, 72, 95, 106, 6, 7, 23, 83,
       71, 109, 126, 77, 30, 67, 121, 31, 37, 21, 32, 22, 77, 45, 45, 36, 72,
       99, 28, 20, 9, 16, 73, 102, 71, 57, 7, 14, 10, 104, 70, 5, 45, 47, 57,
       51, 35, 66, 97, 30, 53, 118, 75, 74, 54, 41, 114, 81, 57, 48, 103, 71,
       69, 76, 102, 31, 6, 111, 93, 11, 110, 119, 113, 54, 84, 65, 50, 13, 78,
       65, 57, 42, 74, 78, 117, 87, 22, 12, 90, 9, 12, 114, 24, 26, 63, 86,
       121, 93, 31, 100, 69, 0, 45, 81, 23, 107, 5, 4, 50, 0, 36, 113, 56, 88,
       98, 90, 126, 98, 124, 78, 15, 25, 61, 20, 0, 1, 60, 84, 82, 85, 123,
       126, 45, 31, 116, 18, 56, 48, 53, 120, 71, 30, 41, 112, 89, 81, 27, 98,
       106, 14, 118, 102, 80, 51, 59, 94, 87, 6, 27, 37, 72, 72, 80, 34, 107,
       68, 93, 13, 72, 32, 28, 81, 98, 42, 98, 125, 76, 46, 110, 39, 35, 51,
       55, 81, 116, 40, 57, 125, 44, 25, 14, 75, 53, 111, 103, 34, 10, 29, 44,
       65, 106, 108, 125, 108, 105, 109, 118, 91, 5, 9, 92, 117, 14, 20, 108,
       1, 104, 64, 43, 2, 54, 5, 16, 24, 1, 125, 14, 35, 21, 109, 106, 120,
       27, 28, 97, 13, 75, 27, 88, 81, 1, 88, 93, 41, 83, 99, 50, 9, 118, 3,
       92, 46, 70, 84, 20, 108, 117, 121, 57, 116, 18, 124, 113, 78, 98, 55,
       35, 6, 72, 72, 49, 117, 38, 100, 76, 60, 81, 82, 77, 98, 100, 127, 101,
       91, 80, 75, 77, 122, 123, 124, 124, 0, 81, 123, 38, 37, 18, 0, 27, 38,
       14, 16, 80, 0, 72, 102, 94, 47, 45, 14, 91, 92, 70, 25, 105, 44, 81,
       52, 105, 41, 98, 93, 14, 24, 32, 103, 15, 58, 74, 54, 15, 42, 46, 117,
       85, 30, 1, 53, 112, 33, 90, 15, 22, 2, 4, 87, 1, 104, 1, 40, 9, 56,
       122, 104, 127, 6, 19, 35, 35, 94, 38, 31, 28, 31, 42, 67, 73, 34, 122,
       20, 125, 6, 98, 125, 120, 103, 11, 30, 59, 14, 124, 66, 50, 68, 62,
       119, 126, 49, 42, 16, 66, 108, 9, 18, 35, 31, 5, 28, 92, 111, 40, 123,
       3, 48, 44, 80, 42, 90, 22, 58, 27, 103, 14, 40, 107, 94, 100, 21, 89,
       18, 24, 19, 10, 22, 61, 123, 74, 31, 52, 83, 64, 1, 56, 111, 58, 95,
       71, 85, 109, 126, 115, 4, 108, 97, 85, 15, 116, 120, 42, 1, 70, 40,
       110, 70, 90, 60, 59, 102, 31, 8, 53, 113, 50, 2, 60, 122, 124, 100, 18,
       2, 59, 7, 0, 15, 104, 11, 8, 21, 124, 27, 25, 66, 24, 63, 81, 31, 11,
       126, 12, 76, 103, 65, 96, 106, 73, 78, 83, 111, 102, 106, 84, 45, 15,
       112, 13, 79, 60, 2, 111, 42, 81, 87, 30, 89, 23, 89, 14, 98, 71, 92,
       91, 116, 61, 32, 95, 116, 119, 113, 114, 103, 92, 29, 76, 77, 110, 110,
       41, 108, 12, 27, 55, 5, 43, 70, 117, 10, 110, 66, 15, 15, 44, 15, 13,
       112, 48, 79, 105, 8, 51, 68, 16, 37, 83, 57, 81, 96, 83, 114, 20, 3,
       29, 1, 22, 117, 14, 17, 119, 106, 38, 81, 55, 74, 70, 81, 127, 52, 10,
       107, 44, 122, 9, 35, 69, 30, 35, 54, 90, 47, 27, 70, 88, 120, 93, 41,
       99, 119, 106, 35, 113, 47, 15, 95, 49, 86, 115, 115, 126, 78, 123, 37,
       20, 103, 118, 32, 52, 2, 22, 42, 53, 123, 36, 1, 54, 109, 36, 89, 27,
       84, 105, 78, 36, 25, 28, 61, 0, 127, 3, 106, 95, 54, 23, 57, 30, 54,
       71, 46, 62, 47, 25, 26, 118, 117, 68, 3, 14, 18, 65, 77, 81, 108, 58,
       87, 27, 17, 114, 63, 83, 126, 47, 111, 35, 29, 77, 125, 92, 127, 60,
       19, 31, 109, 10, 25, 114, 5, 37, 51, 39, 125, 120, 92, 26, 23, 77, 108,
       106, 38, 106, 100, 12, 69, 114, 83, 102, 63, 122, 82, 34, 76, 114, 118,
       27, 63, 28, 108, 5, 65, 29, 11, 115, 78, 98, 111, 6, 54, 104, 54, 35,
       80, 93, 33, 69, 28, 93, 64, 26, 13, 78, 59, 104, 56, 30, 60, 65, 57,
       125, 71, 5, 99, 77, 112, 71, 55, 45, 86, 24, 36, 114, 25, 119, 61, 20,
       36, 38, 39, 72, 84, 122, 70, 65, 21, 58, 75, 124, 127, 79, 31, 32, 92,
       5, 42, 56, 91, 43, 118, 47, 125, 17, 108, 29, 36, 62, 108, 70, 15, 11,
       104, 9, 85, 8, 124, 90, 49, 45, 114, 89, 61, 127, 10, 95, 118, 97, 20,
       99, 82, 36, 87, 6, 85, 30, 83, 1, 121, 53, 87, 93, 6, 104, 72, 0, 121,
       90, 102, 120, 56, 37, 68, 64, 96, 110, 100, 40, 5, 67, 35, 91, 50, 120,
       1, 71, 83, 23, 78, 29, 35, 2, 75, 115, 124, 0, 59, 110, 24, 23, 58, 16,
       86, 33, 21, 112, 83, 83, 79, 81, 1, 61, 63, 19, 3, 28, 72, 111, 29, 75,
       15, 118, 53, 20, 82, 14, 5, 73, 100, 24, 50, 19, 72, 102, 70, 23, 62,
       110, 13, 77, 7, 119, 35, 122, 127, 101, 79, 112, 11, 64, 76, 25, 66,
       38, 29, 121, 88, 33, 117, 18, 125, 114, 68, 95, 112, 47, 115, 14, 38,
       95, 63, 29, 24, 98, 99, 15, 116, 77, 91, 39, 43, 87, 98, 0, 50, 63, 23,
       48, 55, 120, 31, 55, 121, 105, 2, 68, 106, 88, 54, 82, 2, 58, 107, 7,
       47, 5, 17, 125, 84, 66, 60, 74, 57, 61, 43, 57, 21, 91, 113, 101, 13,
       76, 9, 117, 59, 58, 88, 42, 45, 30, 120, 54, 110, 64, 72, 61, 112, 70,
       120, 53, 24, 105, 32, 18, 120, 90, 43, 91, 121, 83, 97, 101, 83, 125,
       85, 49, 89, 82, 108, 102, 79, 60, 14, 27, 7, 109, 17, 60, 97, 27, 19,
       48, 1, 85, 38, 125, 34, 81, 105, 114, 98, 42, 0, 72, 48, 98, 78, 18,
       38, 44, 122, 44, 106, 90, 9, 73, 38, 26, 119, 62, 125, 10, 18, 90, 27,
       121, 93, 104, 52, 94, 26, 24, 86, 6, 86, 91, 3, 2, 57, 109, 69, 24, 39,
       59, 32, 0, 114, 44, 8, 21, 8, 68, 57, 59, 7, 27, 20, 78, 49, 2, 65,
       107, 114, 50, 29, 112, 26, 11, 72, 101, 55, 21, 12, 39, 11, 43, 86, 56,
       87, 127, 26, 83, 23, 22, 14, 67, 48, 24, 113, 115, 92, 110, 105, 12,
       96, 21, 57, 112, 1, 127, 14, 66, 6, 26, 119, 127, 52, 9, 104, 59, 40,
       103, 18, 47, 79, 45, 21, 104, 111, 58, 65, 17, 47, 9, 43, 104, 86, 38,
       41, 84, 37, 96, 109, 11, 77, 54, 12, 62, 100, 46, 56, 79, 29, 49, 30,
       98, 100, 15, 25, 73, 82, 55, 22, 21, 49, 85, 75, 73, 27, 120, 3, 127,
       54, 4, 80, 11, 7, 91, 57, 95, 40, 111, 89, 91, 8, 83, 14, 17, 5, 65,
       102, 83, 82, 74, 98, 116, 82, 114, 123, 13, 38, 88, 0, 0, 83, 67, 24,
       42, 21, 75, 11, 0, 86, 77, 108, 93, 20, 63, 42, 92, 118, 127, 94, 6,
       127, 34, 31, 29, 83, 109, 0, 58, 51, 112, 58, 68, 30, 9, 44, 80, 3, 92,
       110, 79, 15, 34, 56, 93, 25, 36, 64, 98, 45, 51, 107, 92, 88, 44, 114,
       43, 73, 83, 3, 79, 103, 23, 31, 107, 103, 35, 87, 92, 30, 67, 122, 14,
       89, 53, 62, 96, 34, 64, 25, 45, 8, 99, 3, 32, 32, 94, 28, 99, 115, 62,
       39, 100, 124, 126, 63, 105, 19, 127, 8, 89, 127, 70, 17, 120, 72, 2,
       84, 106, 43, 65, 20, 64, 69, 80, 61, 88, 58, 93, 20, 122, 18, 127, 53,
       59, 31, 119, 91, 65, 71, 25, 50, 127, 65, 43, 90, 103, 106, 1, 121, 97,
       64, 0, 56, 74, 41, 102, 65, 126, 38, 12, 126, 78, 80, 31, 63, 52, 92,
       9, 97, 44, 37, 41, 89, 19, 96, 10, 43, 102, 72, 120, 86, 15, 6, 109,
       93, 106, 47, 4, 45, 48, 100, 91, 26, 58, 0, 89, 67, 52, 31, 77, 118,
       68, 34, 5, 105, 12, 49, 21, 105, 109, 100, 98, 101, 46, 93, 17, 117,
       26, 116, 42, 81, 1, 115, 96, 29, 108, 12, 42, 104, 49, 69, 120, 81, 51,
       1, 112, 24, 53, 99, 12>>)
    @@
    (7 :> <<
       41, 121, 19, 50, 83, 6, 9, 105, 68, 12, 46, 74, 7, 116, 64, 27, 4, 11,
       55, 53, 8, 30, 11, 70, 54, 7, 105, 72, 15, 121, 28, 80, 80, 74, 121, 7,
       73, 74, 50, 6, 124, 28, 5, 71, 109, 17, 37, 53, 18, 69, 15, 73, 39, 71,
       104, 87, 23, 13, 74, 73, 81, 24, 47, 12, 70, 91, 8, 72, 7, 79, 26, 63,
       87, 68, 54, 99, 40, 59, 74, 118, 58, 46, 38, 31, 101, 23, 89, 99, 31,
       10, 73, 38, 67, 63, 112, 43, 93, 57, 36, 77, 125, 9, 15, 65, 53, 21,
       96, 43, 19, 119, 62, 53, 5, 123, 85, 9, 97, 71, 73, 101, 112, 104, 40,
       43, 88, 44, 76, 63, 74, 102, 58, 8, 107, 11, 120, 34, 60, 89, 85, 8, 7,
       93, 89, 39, 82, 73, 127, 87, 105, 57, 36, 91, 49, 113, 85, 44, 2, 120,
       59, 45, 21, 78, 14, 63, 7, 27, 98, 36, 16, 94, 31, 50, 50, 117, 111,
       63, 10, 21, 57, 51, 70, 35, 113, 17, 104, 55, 110, 70, 35, 90, 53, 126,
       45, 87, 113, 48, 122, 29, 19, 10, 22, 19, 29, 84, 29, 1, 62, 106, 75,
       23, 33, 36, 0, 18, 53, 68, 47, 78, 72, 40, 121, 16, 88, 109, 65, 121,
       79, 83, 86, 94, 6, 58, 115, 111, 99, 121, 111, 87, 102, 71, 50, 50, 51,
       50, 13, 61, 81, 51, 7, 24, 8, 126, 26, 56, 20, 14, 43, 76, 6, 13, 0,
       72, 19, 68, 12, 121, 46, 78, 3, 9, 111, 26, 78, 48, 19, 81, 32, 122,
       44, 77, 46, 60, 15, 14, 108, 62, 127, 125, 59, 61, 61, 39, 10, 18, 13,
       95, 43, 94, 33, 61, 106, 88, 20, 66, 2, 26, 121, 121, 67, 46, 18, 88,
       69, 117, 3, 97, 67, 38, 125, 82, 110, 11, 89, 108, 33, 66, 46, 116, 21,
       45, 98, 28, 68, 69, 99, 64, 42, 81, 28, 78, 103, 100, 126, 97, 109, 24,
       103, 30, 104, 51, 94, 102, 29, 25, 66, 63, 45, 93, 3, 126, 3, 101, 35,
       60, 33, 24, 88, 77, 122, 44, 57, 103, 119, 92, 126, 44, 122, 124, 46,
       10, 28, 13, 29, 60, 25, 43, 26, 61, 79, 126, 115, 78, 107, 0, 61, 116,
       83, 44, 102, 82, 10, 106, 84, 15, 116, 49, 100, 91, 96, 25, 61, 113,
       22, 55, 101, 81, 42, 11, 102, 121, 124, 92, 50, 59, 51, 95, 121, 10,
       92, 20, 21, 127, 16, 3, 19, 75, 115, 59, 103, 83, 18, 78, 105, 76, 125,
       60, 84, 119, 44, 19, 70, 70, 16, 2, 1, 102, 124, 92, 83, 13, 67, 95,
       119, 17, 55, 126, 111, 24, 105, 111, 27, 3, 32, 27, 37, 64, 30, 97, 75,
       41, 33, 69, 53, 106, 16, 7, 116, 94, 45, 114, 58, 84, 74, 104, 115, 66,
       53, 105, 117, 112, 64, 16, 68, 19, 67, 65, 2, 111, 56, 99, 23, 77, 0,
       99, 102, 19, 22, 18, 60, 79, 92, 15, 71, 7, 41, 87, 66, 67, 71, 61,
       100, 99, 13, 113, 71, 7, 31, 24, 35, 5, 98, 12, 64, 57, 71, 3, 97, 114,
       116, 8, 56, 41, 78, 124, 64, 77, 65, 25, 88, 35, 57, 65, 68, 103, 61,
       64, 120, 31, 89, 66, 112, 112, 120, 118, 33, 118, 71, 114, 120, 25,
       107, 57, 17, 53, 15, 50, 56, 40, 9, 85, 30, 54, 9, 27, 85, 38, 100, 15,
       114, 99, 19, 120, 91, 82, 84, 46, 18, 32, 113, 17, 123, 59, 28, 95,
       121, 12, 50, 113, 62, 20, 126, 85, 106, 28, 20, 90, 55, 127, 65, 51,
       43, 53, 25, 45, 40, 11, 92, 46, 2, 43, 70, 58, 56, 90, 2, 49, 42, 66,
       79, 37, 65, 122, 8, 14, 126, 117, 100, 29, 124, 112, 13, 10, 33, 34, 5,
       115, 99, 23, 34, 96, 16, 104, 54, 108, 116, 86, 104, 121, 33, 51, 19,
       68, 117, 65, 73, 63, 89, 41, 11, 35, 7, 102, 88, 23, 54, 114, 9, 34,
       120, 2, 81, 11, 102, 33, 10, 77, 109, 28, 8, 33, 110, 15, 58, 1, 43,
       127, 70, 53, 118, 117, 34, 79, 16, 5, 67, 90, 30, 120, 14, 124, 20, 33,
       6, 23, 25, 119, 39, 80, 39, 67, 97, 26, 37, 57, 64, 86, 22, 34, 44,
       102, 2, 127, 32, 4, 1, 2, 93, 64, 70, 125, 24, 65, 60, 31, 119, 57, 13,
       84, 104, 83, 55, 84, 63, 69, 106, 113, 50, 124, 64, 39, 88, 27, 125,
       29, 43, 25, 106, 112, 90, 93, 81, 17, 51, 126, 44, 125, 6, 107, 16, 1,
       9, 80, 94, 112, 32, 55, 20, 7, 10, 85, 107, 48, 111, 64, 85, 124, 36,
       76, 31, 88, 37, 5, 58, 23, 20, 34, 57, 0, 33, 46, 123, 42, 124, 126,
       70, 41, 31, 4, 123, 112, 39, 27, 45, 23, 0, 42, 48, 10, 60, 35, 64, 83,
       25, 31, 64, 99, 0, 11, 33, 104, 11, 18, 51, 75, 5, 50, 2, 38, 38, 80,
       29, 10, 74, 122, 67, 109, 96, 19, 84, 114, 91, 100, 112, 76, 49, 97,
       41, 92, 126, 63, 19, 36, 92, 79, 82, 18, 5, 105, 106, 91, 114, 65, 80,
       54, 93, 89, 103, 64, 17, 116, 67, 96, 64, 72, 106, 104, 102, 2, 105,
       87, 74, 102, 114, 91, 87, 122, 88, 82, 29, 10, 3, 5, 17, 81, 46, 122,
       13, 48, 106, 57, 71, 6, 80, 2, 80, 68, 87, 31, 62, 33, 0, 58, 102, 8,
       95, 119, 64, 114, 68, 11, 84, 67, 8, 95, 94, 60, 32, 103, 9, 108, 33,
       30, 93, 96, 26, 29, 94, 83, 124, 58, 63, 108, 48, 9, 61, 116, 87, 36,
       98, 5, 78, 80, 82, 25, 9, 76, 18, 42, 32, 83, 95, 88, 38, 79, 72, 17,
       1, 61, 7, 62, 34, 124, 86, 12, 88, 27, 86, 62, 37, 90, 66, 36, 59, 59,
       59, 98, 15, 127, 114, 70, 25, 39, 125, 10, 119, 60, 2, 37, 58, 9, 104,
       64, 123, 127, 57, 127, 34, 49, 26, 117, 121, 119, 26, 9, 74, 11, 18,
       95, 67, 33, 121, 46, 16, 77, 104, 80, 65, 35, 113, 14, 90, 46, 29, 63,
       114, 112, 62, 50, 3, 20, 0, 121, 62, 87, 57, 51, 38, 93, 18, 53, 44,
       48, 40, 15, 107, 42, 0, 41, 96, 43, 107, 50, 15, 120, 118, 25, 91, 1,
       115, 94, 37, 32, 47, 8, 50, 49, 127, 111, 75, 9, 46, 118, 54, 96, 35,
       109, 6, 35, 13, 6, 106, 84, 36, 81, 119, 19, 31, 124, 34, 55, 65, 40,
       24, 98, 47, 100, 122, 54, 113, 3, 103, 97, 80, 51, 116, 112, 120, 70,
       70, 26, 92, 10, 6, 119, 93, 52, 57, 78, 96, 17, 82, 111, 36, 62, 6,
       116, 118, 70, 16, 21, 60, 53, 43, 36, 38, 32, 94, 94, 124, 83, 33, 51,
       83, 30, 38, 61, 71, 85, 50, 15, 21, 82, 20, 9, 26, 64, 115, 103, 63,
       70, 28, 57, 116, 42, 127, 97, 57, 54, 17, 70, 24, 31, 11, 22, 43, 71,
       11, 40, 30, 47, 33, 103, 72, 25, 113, 2, 95, 111, 52, 49, 52, 95, 67,
       26, 48, 34, 43, 96, 7, 63, 35, 73, 123, 46, 16, 87, 64, 67, 80, 101,
       110, 108, 27, 11, 34, 114, 31, 49, 51, 82, 57, 55, 122, 39, 108, 104,
       111, 123, 2, 16, 4, 54, 90, 97, 114, 102, 60, 123, 75, 62, 0, 9, 50,
       119, 118, 118, 105, 67, 109, 59, 124, 57, 31, 100, 13, 28, 19, 19, 66,
       124, 87, 13, 120, 105, 92, 89, 82, 108, 97, 114, 58, 10, 70, 99, 5, 0,
       100, 16, 29, 72, 117, 4, 82, 91, 38, 123, 16, 80, 32, 67, 81, 55, 89,
       97, 14, 12, 9, 38, 67, 120, 74, 24, 49, 33, 28, 101, 76, 0, 1, 68, 38,
       127, 58, 35, 122, 40, 82, 107, 113, 31, 60, 67, 30, 70, 31, 3, 122, 52,
       90, 83, 39, 7, 2, 24, 63, 113, 86, 82, 53, 10, 32, 29, 85, 54, 118, 47,
       29, 63, 4, 89, 43, 91, 53, 46, 87, 50, 25, 0, 102, 37, 94, 108, 64, 8,
       26, 63, 124, 25, 39, 98, 104, 24, 29, 59, 28, 33, 97, 113, 37, 13, 121,
       79, 63, 78, 23, 114, 28, 62, 53, 116, 85, 7, 121, 76, 18, 118, 50, 6,
       27, 3, 124, 76, 18, 53, 6, 90, 7, 23, 50, 57, 114, 91, 113, 40, 93, 14,
       127, 10, 119, 21, 42, 24, 23, 83, 119, 67, 95, 59, 4, 39, 85, 92, 48,
       107, 47, 126, 42, 56, 21, 13, 0, 10, 35, 10, 44, 53, 122, 113, 15, 71,
       123, 97, 26, 48, 45, 98, 105, 39, 105, 102, 55, 11, 6, 90, 60, 25, 47,
       69, 117, 57, 24, 41, 46, 94, 114, 60, 3, 80, 52, 31, 103, 80, 98, 51,
       5, 48, 4, 59, 8, 102, 117, 7, 32, 24, 95, 8, 115, 77, 43, 46, 34, 42,
       122, 122, 78, 5, 33, 95, 91, 88, 40, 118, 35, 38, 0, 92, 96, 76, 117,
       103, 81, 121, 120, 8, 3, 105, 29, 13, 60, 91, 122, 59, 122, 99, 49,
       101, 32, 116, 55, 104, 63, 16, 118, 63, 23, 1, 102, 119, 94, 38, 105,
       88, 98, 19, 77, 30, 41, 110, 40, 58, 46, 100, 100, 76, 10, 65, 25, 50,
       96, 20, 31, 52, 8, 83, 4, 61, 70, 69, 41, 20, 125, 54, 113, 13, 126, 9,
       33, 79, 10, 26, 12, 53, 63, 126, 90, 124, 57, 22, 29, 17, 53, 58, 79,
       114, 86, 30, 95, 68, 108, 99, 85, 97, 15, 99, 107, 37, 37, 35, 72, 34,
       47, 32, 94, 33, 25, 56, 31, 23, 31, 30, 19, 36, 113, 116, 74, 24, 41,
       8, 50, 32, 127, 31, 64, 67, 29, 83, 103, 12, 83, 59, 126, 4, 13, 0, 60,
       113, 104, 29, 107, 57, 117, 47, 5, 112, 37, 29, 15, 6, 24, 76, 124,
       105, 74, 24, 119, 9, 47, 65, 110, 22, 57, 77, 33, 99, 99, 85, 121, 0,
       13, 81, 76, 90, 79, 44, 27, 4, 47, 43, 18, 5, 26, 127, 32, 4, 76, 93,
       83, 116, 26, 104, 1, 104, 41, 52, 86, 47, 23, 79, 39, 9, 26, 4, 101,
       63, 70, 61, 8, 52, 12, 101, 50, 84, 70, 19, 81, 68, 11, 83, 20, 50, 89,
       34, 52, 126, 36, 85, 39, 53, 122, 6, 39, 95, 72, 113, 45, 53, 53, 2,
       110, 98, 127, 102, 46, 82, 25, 50, 93, 51, 26, 120, 0, 55, 115, 20, 54,
       14, 105, 11, 51, 73, 113, 46, 58, 98, 20, 16, 1, 6, 70, 18, 82, 103,
       116, 50, 11, 73, 79, 118, 47, 94, 64, 21, 18, 44, 36, 20, 66, 21, 118,
       8, 13, 49, 62, 96, 103, 101, 123, 103, 25, 38, 16, 107, 120, 5, 124,
       116, 61, 40, 6, 77, 118, 81, 49, 11, 115, 91, 79, 88, 105, 114, 20, 81,
       100, 109, 28, 79, 51, 78, 108, 25, 106, 60, 23, 72, 27, 5, 51, 120, 66,
       20, 49, 45, 15, 19, 31, 124, 92, 104, 114, 24, 5, 113, 71, 107, 96, 86,
       4, 85, 107, 41, 15, 49, 76, 58, 70, 108, 80, 99, 39, 83, 53, 39, 74,
       31, 54, 49, 84, 47, 57, 64, 56, 22, 2, 0, 79, 126, 62, 59, 30, 57, 97,
       79, 99, 104, 58, 107, 22, 103, 60, 51, 13, 8, 16, 45, 55, 46, 11, 102,
       56, 64, 65, 84, 5, 5, 81, 16, 10, 118, 93, 40, 99, 92, 65, 10, 6, 96,
       64, 114, 48, 83, 121, 100, 17, 3, 109, 8, 127, 78, 93, 88, 104, 14, 24,
       16, 125, 113, 62, 36, 122, 103, 117, 101, 21, 87, 100, 92, 119, 28, 8,
       106, 44, 78, 96, 32, 20, 41, 114, 78, 35, 115, 104, 58, 18, 32, 64,
       123, 117, 61, 26, 75, 33, 78, 64, 30, 40, 47, 4, 25, 23, 51, 20, 81,
       119, 35, 86, 41, 114, 48, 21, 101, 100, 33, 14, 98, 67, 6, 81, 109, 46,
       123, 111, 57, 71, 66, 74, 88, 112, 114, 13, 32, 127, 68, 80, 109, 50,
       94, 102, 47, 33, 48, 126, 47, 73, 18, 46, 42, 97, 10, 56, 29, 22, 78,
       95, 122, 6, 37, 104, 66, 32, 39, 81, 123, 125, 111, 74, 118, 84, 114,
       40, 93, 0, 95, 4, 28, 19, 37, 78, 80, 55, 53, 65, 46, 114, 6, 16, 62,
       29, 78, 83, 5, 2, 6, 0, 72, 45, 38, 13, 66, 45, 68, 28, 52, 74, 38, 75,
       17, 26, 46, 79, 106, 60, 20, 17, 1, 119, 102, 31, 90, 19, 57, 12, 8,
       81, 18, 111, 85, 100, 34, 51, 103, 33, 123, 1, 7, 82, 105, 71, 114, 44,
       76, 82, 74, 56, 77, 119, 66, 93, 63, 31, 21, 115, 0, 5, 7, 68, 3, 51,
       23, 30, 20, 7, 116, 99, 13, 1, 78, 70, 84, 120, 25, 18, 52, 25, 66, 77,
       82, 64, 82, 82, 53, 104, 78, 22, 65, 39, 8, 38, 80, 6, 127, 113, 92,
       100, 61, 91, 68, 0, 48, 108, 55, 95, 116, 59, 10, 94, 83, 57, 22, 28,
       127, 13, 33, 29, 82, 4, 15, 42, 114, 95, 118, 88, 120, 108, 33, 91, 6,
       34, 81, 70, 86, 55, 87, 100, 117, 66, 124, 33, 37, 82, 118, 123, 114,
       27, 10, 112, 64, 1, 21, 33, 115, 30, 107, 95, 25, 120, 20, 95, 117, 41,
       24, 112, 49, 42, 76, 30, 48, 116, 109, 80, 117, 88, 125, 85, 107, 125,
       68, 60, 60, 107, 67, 89, 0, 109, 3, 55, 122, 92, 29, 73, 113, 39, 101,
       27, 50, 79, 74, 9, 72, 116, 21, 18, 4, 3, 14, 13, 79, 118, 20, 44, 125,
       18, 89, 3, 3, 5, 17, 88, 82, 81, 5, 89, 8, 94, 5, 8, 109, 75, 97, 46,
       25, 104, 122, 104, 68, 114, 85, 8, 112, 111, 96, 117, 91, 120, 49, 13,
       31, 26, 26, 14, 4, 4, 121, 108, 116, 103, 96, 81, 11, 105, 96, 80, 80,
       36, 61, 12, 16, 12, 101, 96, 82, 26, 37, 40, 43, 54, 33, 2, 44, 32,
       119, 36, 6, 91, 97, 47, 116, 41, 98, 123, 77, 64, 60, 108, 36, 79, 95,
       3, 100, 52, 3, 55, 66, 98, 12, 44, 60, 90, 6, 68, 72, 27, 91, 110, 105,
       11, 73, 104, 36, 21, 55, 0, 67, 25, 36, 97, 96, 125, 6, 0, 44, 62, 12,
       62, 88, 101, 105, 23, 123, 63, 75, 44, 122, 106, 65, 33, 73, 120, 20,
       36, 104, 27, 120, 89, 29, 63, 21, 14, 120, 81, 98, 10, 62, 100, 126,
       89, 71, 100, 13, 80, 41, 45, 12, 51, 118, 50, 114, 113, 95, 11, 54,
       113, 82, 3, 47, 26, 38, 33, 54, 115, 69, 64, 21, 48, 125, 113, 80, 29,
       120, 58, 16, 68, 76, 96, 88, 96, 77, 82, 4, 44, 74, 41, 66, 19, 111,
       107, 57, 84, 70, 94, 41, 21, 59, 56, 88, 98, 32, 74, 29, 16, 42, 59,
       82, 113, 89, 30, 64, 24, 34, 38, 96, 90, 105, 107, 79, 19, 92, 19, 124,
       31, 92, 41, 77, 66, 44, 20, 30, 41, 122, 24, 33, 124, 122, 93, 127, 13,
       21, 123, 84, 13, 25, 49, 19, 125, 18, 101, 38, 93, 38, 55, 35, 25, 13,
       81, 116, 13, 35, 26, 113, 49, 59, 4, 1, 51, 109, 101, 55, 88, 28, 64,
       125, 80, 37, 59, 2, 18, 32, 77, 94, 51, 0, 94, 31, 116, 109, 55, 89,
       73, 75, 95, 82, 53, 108, 29, 85, 92, 83, 112, 112, 99, 82, 89, 74, 109,
       29, 86, 23, 82, 15, 58, 55, 40, 33, 80, 89, 12, 114, 53, 31, 100, 51,
       91, 91, 80, 20, 32, 108, 54, 61, 58, 2, 79, 109, 52, 66, 86, 84, 119,
       111, 23, 114, 83, 41, 99, 1, 49, 106, 62, 116, 124, 13, 4, 32, 69, 27,
       20, 91, 100, 121, 120, 25, 66, 44, 12, 108, 73, 58, 69, 26, 91, 60, 65,
       2, 81, 101, 106, 47, 66, 43, 52, 94, 121, 58, 26, 126, 87, 23, 50, 65,
       97, 119, 15, 93, 126, 78, 45, 81, 7, 32, 35, 48, 51, 7, 1, 9, 53, 117,
       53, 80, 89, 86, 45, 74, 33, 13, 28, 38, 94, 51, 120, 122, 67, 124, 28,
       127, 102, 122, 50, 59, 27, 21, 16, 118, 99, 8, 103, 102, 81, 24, 60,
       82, 71, 92, 28, 104, 123, 18, 45, 85, 81, 106, 104, 101, 104, 52, 59,
       127, 37, 97, 70, 83, 16, 99, 106, 60, 45, 100, 108, 29, 34, 90, 48, 87,
       32, 125, 54, 86, 23, 61, 0, 103, 92, 102, 35, 45, 31, 83, 38, 41, 61,
       62, 54, 79, 81, 10, 84, 114, 46, 19, 118, 38, 109, 49, 7, 10, 105, 72,
       115, 41, 100, 120, 17, 67, 106, 44, 81, 74, 1, 84, 1, 26, 121, 9, 83,
       37, 32, 77, 12, 74, 18, 109, 29, 23, 99, 57, 44, 100, 19, 26, 115, 51,
       101, 68, 21, 78, 114, 88, 77, 125, 100, 11, 85, 115, 114, 70, 100, 81,
       107, 38, 25, 63, 88, 27, 67, 10, 94, 107, 56, 85, 112, 14, 71, 15, 33,
       53, 29, 105, 17, 60, 63, 71, 7, 61, 59, 115, 18, 89, 62, 31, 63, 21,
       69, 76, 110, 94, 0, 20, 107, 41, 59, 89, 72, 63, 85, 37, 107, 59, 47,
       54, 53, 127>>)
    @@
    (8 :> <<
       29, 47, 123, 48, 16, 24, 90, 5, 10, 17, 31, 103, 127, 64, 26, 51, 82,
       3, 58, 62, 58, 49, 63, 73, 24, 114, 106, 51, 11, 62, 29, 97, 2, 89, 34,
       66, 52, 60, 115, 116, 48, 92, 14, 84, 33, 12, 126, 104, 8, 49, 79, 106,
       48, 13, 84, 7, 43, 30, 88, 11, 63, 115, 83, 66, 115, 26, 74, 103, 18,
       77, 8, 69, 121, 4, 62, 89, 24, 18, 121, 110, 74, 58, 93, 74, 112, 56,
       36, 71, 45, 109, 112, 54, 17, 20, 97, 76, 12, 68, 88, 40, 89, 45, 121,
       82, 107, 63, 64, 79, 25, 39, 19, 45, 67, 36, 65, 84, 9, 103, 115, 109,
       64, 116, 89, 69, 28, 44, 31, 116, 1, 37, 43, 28, 34, 4, 54, 32, 48, 38,
       106, 90, 114, 53, 22, 84, 50, 14, 21, 119, 84, 109, 124, 3, 25, 124,
       98, 20, 38, 14, 1, 101, 97, 48, 43, 107, 21, 72, 55, 115, 29, 17, 52,
       72, 57, 52, 53, 10, 75, 8, 36, 91, 12, 4, 10, 84, 13, 97, 66, 67, 46,
       19, 103, 119, 64, 62, 90, 19, 125, 77, 8, 24, 2, 116, 17, 43, 49, 84,
       73, 15, 95, 38, 44, 41, 123, 46, 0, 82, 106, 63, 26, 7, 112, 79, 4,
       113, 123, 111, 97, 103, 126, 104, 74, 22, 22, 43, 124, 55, 56, 15, 10,
       25, 77, 28, 63, 103, 60, 101, 19, 48, 15, 13, 74, 92, 57, 82, 16, 92,
       56, 65, 92, 11, 91, 118, 60, 72, 50, 104, 46, 58, 28, 6, 25, 6, 57, 14,
       13, 27, 92, 0, 90, 76, 78, 116, 2, 83, 46, 106, 55, 67, 11, 125, 123,
       95, 96, 76, 64, 104, 90, 72, 25, 64, 29, 41, 67, 49, 95, 66, 82, 25, 0,
       37, 78, 37, 116, 10, 95, 41, 118, 116, 125, 51, 28, 80, 37, 10, 70, 53,
       125, 95, 47, 103, 120, 94, 108, 41, 66, 38, 80, 106, 122, 45, 100, 114,
       37, 83, 108, 13, 25, 62, 47, 48, 122, 74, 108, 117, 39, 26, 37, 50, 78,
       49, 107, 117, 87, 67, 119, 88, 93, 45, 105, 86, 77, 74, 46, 86, 54, 25,
       62, 105, 67, 64, 107, 10, 34, 20, 8, 63, 93, 110, 34, 126, 53, 99, 14,
       79, 106, 105, 35, 126, 37, 35, 102, 105, 64, 34, 35, 127, 113, 80, 52,
       31, 46, 31, 123, 31, 101, 64, 95, 58, 31, 29, 104, 103, 76, 67, 106,
       25, 47, 63, 99, 13, 101, 14, 49, 10, 83, 21, 99, 72, 127, 54, 117, 5,
       100, 116, 17, 2, 78, 24, 87, 33, 11, 12, 59, 58, 111, 85, 115, 36, 118,
       72, 11, 16, 77, 45, 110, 125, 83, 8, 40, 101, 4, 106, 117, 10, 109, 17,
       83, 102, 46, 127, 106, 9, 104, 29, 92, 4, 76, 101, 40, 28, 37, 95, 45,
       123, 41, 8, 66, 115, 14, 117, 92, 78, 44, 55, 20, 20, 32, 114, 49, 19,
       55, 93, 100, 8, 12, 68, 28, 10, 37, 118, 22, 43, 95, 25, 13, 121, 6, 7,
       71, 100, 94, 22, 105, 21, 71, 81, 41, 37, 112, 31, 94, 64, 61, 14, 72,
       91, 119, 10, 127, 17, 119, 95, 16, 28, 41, 27, 52, 22, 21, 17, 97, 56,
       7, 88, 113, 57, 74, 85, 78, 36, 53, 104, 119, 55, 74, 87, 114, 94, 118,
       47, 88, 72, 125, 90, 62, 111, 46, 94, 108, 99, 67, 23, 39, 34, 87, 121,
       60, 106, 16, 107, 107, 35, 63, 81, 124, 64, 68, 100, 119, 65, 37, 103,
       27, 72, 67, 50, 98, 17, 105, 62, 82, 60, 15, 37, 50, 4, 4, 111, 47, 64,
       120, 37, 44, 48, 89, 3, 79, 127, 18, 106, 88, 1, 10, 105, 23, 57, 74,
       121, 16, 98, 123, 107, 54, 72, 80, 74, 123, 112, 13, 47, 127, 64, 5,
       126, 76, 91, 83, 47, 126, 125, 45, 13, 121, 40, 83, 13, 61, 107, 21,
       82, 30, 61, 46, 73, 44, 119, 47, 96, 103, 54, 47, 95, 80, 85, 4, 94,
       18, 118, 90, 84, 113, 83, 40, 7, 4, 122, 29, 65, 46, 61, 46, 60, 71,
       22, 38, 17, 82, 34, 100, 2, 100, 56, 94, 36, 74, 87, 33, 58, 107, 37,
       37, 51, 110, 63, 57, 84, 80, 11, 63, 114, 83, 56, 43, 17, 74, 124, 94,
       13, 46, 91, 76, 85, 58, 46, 60, 73, 49, 26, 69, 66, 90, 75, 22, 100,
       18, 64, 105, 4, 11, 70, 101, 85, 97, 39, 27, 18, 81, 51, 32, 121, 112,
       102, 25, 122, 14, 1, 4, 56, 91, 106, 27, 40, 40, 3, 125, 0, 94, 2, 94,
       16, 73, 38, 81, 39, 1, 5, 104, 27, 42, 40, 109, 11, 53, 30, 116, 108,
       0, 111, 125, 87, 12, 66, 65, 25, 61, 117, 126, 96, 91, 104, 125, 53,
       115, 14, 54, 64, 18, 9, 18, 84, 90, 99, 121, 100, 85, 90, 44, 119, 76,
       55, 84, 6, 32, 52, 88, 84, 25, 126, 3, 36, 8, 98, 62, 40, 89, 20, 28,
       7, 50, 105, 88, 39, 33, 39, 66, 35, 77, 2, 51, 101, 26, 90, 88, 88, 89,
       27, 24, 14, 103, 98, 83, 126, 110, 119, 99, 126, 63, 19, 91, 105, 40,
       30, 83, 116, 10, 55, 44, 114, 64, 105, 113, 70, 87, 63, 116, 59, 111,
       78, 124, 46, 79, 17, 78, 21, 60, 12, 28, 66, 101, 43, 78, 121, 20, 71,
       30, 120, 28, 54, 92, 86, 76, 117, 25, 43, 88, 16, 72, 99, 34, 9, 56,
       41, 127, 73, 18, 84, 30, 92, 76, 50, 107, 2, 117, 40, 51, 45, 98, 39,
       15, 15, 49, 86, 109, 118, 85, 109, 57, 52, 76, 1, 62, 43, 70, 91, 113,
       110, 124, 116, 25, 2, 96, 1, 120, 90, 77, 88, 64, 40, 47, 90, 61, 112,
       74, 13, 78, 22, 14, 6, 127, 56, 35, 10, 70, 3, 25, 31, 80, 117, 9, 7,
       42, 44, 49, 90, 40, 118, 62, 77, 20, 123, 62, 94, 101, 35, 80, 120,
       124, 114, 121, 7, 61, 107, 59, 74, 97, 31, 112, 103, 69, 125, 85, 100,
       88, 7, 65, 98, 65, 83, 51, 120, 57, 66, 60, 112, 102, 85, 20, 125, 15,
       73, 118, 78, 65, 103, 89, 21, 117, 42, 94, 37, 72, 69, 121, 51, 79, 14,
       57, 70, 23, 38, 20, 95, 101, 113, 114, 126, 45, 45, 67, 7, 86, 51, 77,
       122, 35, 9, 116, 31, 70, 106, 91, 122, 88, 60, 56, 36, 89, 120, 24, 61,
       70, 8, 83, 8, 80, 108, 37, 8, 23, 50, 12, 70, 15, 23, 23, 91, 62, 41,
       72, 30, 90, 24, 56, 31, 98, 48, 3, 66, 44, 39, 15, 67, 66, 62, 73, 5,
       74, 12, 56, 93, 47, 32, 42, 116, 13, 13, 24, 111, 62, 54, 72, 57, 12,
       88, 108, 16, 3, 45, 16, 49, 57, 114, 42, 85, 66, 116, 88, 54, 76, 14,
       100, 48, 60, 122, 86, 81, 53, 106, 16, 99, 9, 92, 23, 30, 56, 25, 35,
       77, 71, 107, 85, 107, 117, 116, 19, 27, 122, 66, 0, 104, 113, 42, 126,
       117, 46, 11, 102, 21, 64, 40, 71, 106, 109, 53, 120, 92, 38, 17, 28,
       48, 117, 1, 75, 13, 115, 19, 28, 8, 108, 98, 20, 82, 18, 63, 36, 111,
       118, 69, 49, 11, 56, 90, 36, 122, 9, 49, 56, 117, 63, 55, 42, 61, 93,
       29, 39, 115, 125, 5, 116, 117, 74, 86, 13, 2, 71, 116, 79, 46, 83, 90,
       54, 1, 92, 33, 127, 121, 89, 47, 5, 83, 80, 22, 79, 8, 69, 62, 120,
       122, 6, 64, 2, 6, 92, 113, 12, 40, 17, 31, 104, 125, 46, 108, 113, 45,
       102, 64, 84, 68, 45, 107, 10, 30, 124, 111, 111, 82, 117, 24, 65, 30,
       35, 12, 80, 117, 53, 3, 24, 2, 14, 97, 52, 40, 18, 64, 34, 28, 125, 7,
       119, 41, 113, 45, 65, 48, 97, 67, 20, 109, 79, 41, 124, 117, 101, 97,
       126, 81, 80, 89, 38, 20, 2, 88, 34, 93, 106, 2, 67, 5, 79, 78, 102,
       126, 37, 70, 18, 38, 113, 69, 76, 26, 3, 17, 89, 5, 92, 66, 97, 77, 16,
       45, 34, 56, 92, 123, 85, 33, 44, 124, 124, 90, 38, 91, 114, 87, 17, 46,
       58, 56, 127, 78, 88, 29, 96, 66, 113, 86, 80, 102, 69, 40, 105, 10, 68,
       33, 122, 73, 97, 85, 0, 111, 36, 43, 113, 64, 14, 34, 1, 0, 74, 59, 88,
       51, 125, 114, 123, 122, 80, 112, 89, 74, 67, 25, 108, 1, 88, 0, 16,
       103, 80, 71, 6, 113, 42, 107, 42, 71, 117, 80, 28, 99, 48, 71, 72, 120,
       26, 62, 58, 96, 37, 51, 92, 120, 101, 66, 74, 117, 111, 54, 62, 107,
       95, 100, 12, 107, 49, 67, 41, 54, 113, 106, 63, 69, 48, 77, 85, 7, 122,
       68, 106, 112, 102, 99, 85, 25, 102, 29, 71, 20, 49, 53, 40, 31, 33, 70,
       43, 102, 64, 1, 110, 38, 30, 53, 50, 68, 33, 108, 61, 42, 7, 62, 79,
       29, 109, 73, 116, 22, 45, 123, 21, 111, 93, 20, 96, 29, 24, 104, 7,
       121, 85, 83, 48, 73, 66, 29, 72, 118, 113, 12, 16, 84, 33, 37, 4, 19,
       88, 61, 10, 46, 109, 12, 78, 91, 65, 67, 34, 99, 111, 83, 14, 94, 74,
       85, 106, 16, 84, 91, 6, 82, 14, 44, 36, 44, 93, 35, 17, 100, 122, 87,
       113, 116, 73, 7, 112, 82, 81, 89, 20, 96, 51, 1, 3, 113, 56, 59, 126,
       47, 51, 29, 85, 7, 46, 75, 86, 59, 42, 38, 116, 70, 52, 17, 34, 123,
       54, 8, 9, 28, 42, 24, 94, 67, 51, 7, 57, 37, 30, 39, 105, 41, 113, 35,
       52, 7, 0, 1, 54, 99, 111, 4, 83, 24, 29, 69, 13, 101, 113, 107, 10, 60,
       78, 78, 76, 17, 23, 121, 56, 63, 110, 91, 127, 86, 9, 102, 3, 70, 33,
       36, 6, 70, 118, 44, 10, 34, 47, 64, 109, 39, 59, 68, 29, 30, 7, 9, 29,
       56, 39, 6, 108, 14, 55, 113, 70, 115, 33, 111, 52, 92, 118, 86, 14, 17,
       89, 96, 40, 108, 53, 87, 92, 110, 44, 101, 62, 48, 62, 86, 62, 65, 9,
       106, 50, 43, 48, 41, 53, 39, 36, 60, 57, 0, 94, 31, 9, 33, 9, 80, 68,
       117, 73, 6, 102, 17, 4, 112, 1, 13, 77, 116, 27, 67, 63, 57, 37, 26,
       11, 36, 71, 111, 40, 38, 62, 19, 111, 79, 57, 44, 107, 33, 37, 113, 23,
       124, 51, 99, 38, 3, 93, 89, 15, 2, 92, 122, 28, 88, 52, 70, 27, 73, 18,
       105, 17, 111, 126, 78, 12, 22, 118, 33, 58, 57, 112, 110, 22, 117, 74,
       31, 87, 48, 39, 52, 78, 111, 115, 122, 53, 88, 3, 20, 78, 0, 99, 88,
       58, 13, 107, 17, 45, 95, 57, 15, 55, 35, 12, 4, 9, 36, 81, 103, 113,
       113, 23, 98, 115, 52, 41, 7, 53, 42, 5, 64, 0, 123, 73, 17, 113, 60,
       81, 104, 16, 93, 84, 57, 16, 33, 60, 66, 95, 117, 49, 34, 40, 105, 40,
       74, 37, 43, 2, 27, 93, 20, 50, 38, 23, 11, 39, 38, 5, 21, 60, 33, 74,
       17, 79, 79, 56, 54, 126, 124, 19, 80, 25, 112, 71, 109, 52, 40, 38, 5,
       92, 35, 65, 25, 72, 125, 88, 114, 53, 119, 65, 97, 126, 103, 20, 100,
       59, 10, 78, 26, 97, 127, 11, 1, 14, 16, 34, 71, 85, 100, 26, 84, 4,
       121, 53, 121, 19, 63, 87, 97, 121, 120, 96, 44, 72, 38, 52, 26, 3, 51,
       55, 53, 66, 102, 38, 2, 52, 29, 120, 127, 47, 58, 33, 10, 56, 120, 119,
       15, 5, 79, 59, 98, 126, 123, 67, 23, 40, 27, 42, 106, 88, 16, 16, 46,
       121, 32, 88, 84, 116, 103, 20, 10, 2, 66, 41, 100, 59, 9, 67, 106, 79,
       92, 4, 44, 119, 5, 19, 63, 23, 80, 16, 91, 48, 80, 20, 103, 91, 71, 45,
       100, 16, 44, 46, 5, 105, 115, 70, 43, 8, 26, 75, 61, 62, 42, 66, 20,
       95, 97, 18, 74, 89, 76, 98, 79, 117, 120, 49, 63, 28, 71, 90, 86, 127,
       51, 124, 0, 76, 76, 41, 115, 118, 45, 19, 14, 82, 65, 109, 115, 71, 15,
       95, 82, 54, 124, 90, 13, 27, 5, 87, 23, 17, 49, 22, 37, 15, 73, 41,
       127, 0, 118, 89, 108, 116, 90, 107, 68, 5, 101, 63, 116, 16, 36, 73,
       101, 1, 85, 121, 14, 58, 77, 22, 123, 53, 125, 39, 34, 61, 82, 52, 105,
       123, 79, 40, 44, 8, 105, 70, 126, 60, 19, 45, 114, 123, 111, 108, 51,
       52, 68, 17, 7, 112, 9, 102, 106, 118, 56, 51, 83, 29, 51, 66, 41, 67,
       23, 93, 6, 17, 18, 123, 104, 68, 12, 37, 4, 77, 47, 8, 65, 106, 22, 68,
       59, 25, 46, 6, 81, 68, 99, 102, 31, 30, 111, 122, 28, 77, 82, 65, 105,
       123, 39, 45, 31, 89, 21, 48, 8, 44, 22, 67, 115, 121, 44, 12, 87, 51,
       27, 6, 77, 52, 125, 8, 28, 102, 113, 86, 34, 123, 100, 93, 17, 44, 99,
       79, 96, 20, 48, 55, 10, 13, 81, 123, 117, 85, 125, 32, 113, 68, 82, 50,
       63, 113, 91, 86, 90, 90, 102, 79, 30, 19, 68, 72, 121, 108, 106, 47,
       20, 0, 115, 39, 34, 2, 112, 72, 60, 61, 48, 14, 90, 110, 88, 32, 90,
       56, 112, 18, 127, 67, 22, 73, 51, 90, 104, 1, 33, 19, 29, 19, 73, 39,
       8, 103, 116, 108, 110, 94, 9, 71, 102, 3, 63, 36, 61, 65, 124, 94, 124,
       48, 20, 57, 80, 40, 27, 67, 91, 55, 60, 46, 86, 118, 61, 77, 113, 84,
       0, 109, 101, 94, 18, 33, 112, 96, 38, 78, 37, 67, 19, 89, 77, 106, 87,
       37, 103, 37, 94, 68, 94, 12, 29, 100, 87, 25, 23, 39, 52, 100, 69, 113,
       74, 33, 91, 15, 10, 86, 23, 78, 60, 51, 7, 22, 50, 124, 110, 12, 75,
       110, 115, 30, 8, 31, 67, 53, 20, 17, 56, 97, 99, 24, 125, 35, 3, 43,
       35, 103, 116, 4, 42, 94, 60, 35, 71, 83, 34, 123, 46, 23, 5, 3, 71, 38,
       24, 90, 37, 29, 111, 41, 89, 125, 116, 110, 9, 122, 91, 27, 73, 88,
       116, 39, 96, 89, 19, 105, 104, 84, 2, 64, 75, 83, 8, 88, 49, 20, 27,
       91, 30, 16, 46, 109, 59, 43, 95, 11, 95, 2, 59, 77, 91, 8, 78, 51, 106,
       5, 37, 88, 15, 110, 52, 3, 111, 78, 126, 82, 59, 71, 47, 123, 73, 39,
       124, 114, 59, 69, 81, 28, 88, 35, 92, 13, 13, 97, 71, 28, 39, 75, 23,
       99, 8, 32, 24, 83, 64, 86, 98, 54, 98, 100, 100, 54, 54, 18, 14, 11,
       31, 18, 115, 92, 87, 64, 73, 18, 29, 121, 96, 1, 113, 75, 69, 61, 33,
       113, 7, 76, 38, 107, 71, 28, 51, 67, 78, 99, 85, 47, 42, 93, 68, 53,
       48, 43, 81, 34, 96, 87, 14, 126, 8, 5, 103, 27, 84, 8, 20, 21, 3, 64,
       64, 71, 2, 88, 83, 16, 30, 108, 67, 25, 19, 99, 50, 50, 9, 65, 84, 107,
       116, 116, 46, 69, 122, 7, 120, 39, 70, 91, 10, 104, 69, 113, 106, 71,
       55, 13, 37, 35, 100, 54, 117, 17, 65, 44, 120, 39, 99, 92, 119, 59, 7,
       73, 111, 37, 94, 92, 30, 70, 49, 10, 61, 118, 118, 13, 98, 31, 62, 11,
       2, 102, 50, 109, 94, 58, 11, 97, 64, 102, 1, 109, 27, 120, 79, 83, 64,
       76, 123, 4, 98, 28, 11, 127, 43, 67, 28, 120, 45, 28, 117, 104, 106,
       101, 94, 93, 26, 39, 104, 127, 18, 42, 32, 127, 77, 120, 56, 11, 47, 9,
       33, 52, 23, 33, 18, 50, 27, 23, 17, 96, 2, 12, 73, 76, 21, 41, 3, 42,
       127, 77, 81, 2, 13, 96, 95, 59, 32, 94, 22, 105, 72, 117, 18, 1, 29,
       33, 43, 44, 54, 69, 113, 37, 115, 55, 89, 64, 95, 98, 34, 10, 11, 47,
       26, 30, 94, 54, 5, 45, 73, 30, 48, 119, 97, 0, 8, 4, 50, 93, 54, 27,
       99, 117, 16, 81, 11, 106, 110, 122, 63, 96, 98, 123, 43, 22, 96, 25,
       85, 3, 114, 0, 59, 102, 41, 90, 25, 38, 10, 18, 70, 12, 66, 65, 53,
       126, 21, 0, 50, 71, 97, 89, 40, 32, 38, 20, 43, 117, 28, 99, 15, 42,
       10, 122, 68, 57, 73, 107, 118, 89, 61, 59, 85, 46, 10, 12, 88, 47, 91,
       93, 40, 41, 119, 39, 97, 42, 89, 10, 90, 111, 98, 82, 95, 79, 71, 107,
       90, 77, 126, 52, 39, 109, 63, 29, 36, 95, 62, 125, 30, 16, 70, 30, 13,
       46, 100, 93, 69, 66, 32, 51, 26, 115, 75, 53, 92, 28, 26, 4, 62, 124,
       122, 127, 107, 124, 89, 75, 72, 69, 71, 121, 117, 69, 74, 44, 25, 84,
       111, 30, 111, 65, 64, 24, 31, 29, 34, 48, 57, 88, 28, 104, 20, 8, 125,
       63, 73, 107, 64, 12, 13, 30, 8, 81, 112, 38, 47, 115, 28, 4, 125, 86,
       41, 74, 26, 34, 63, 92, 103, 37, 106, 9, 36, 64, 24, 8, 11, 73, 118,
       26, 108, 62, 77, 123, 48, 87, 119>>)
    @@
    (9 :> <<
       59, 78, 47, 34, 17, 23, 110, 86, 0, 43, 64, 59, 114, 77, 10, 42, 70,
       119, 78, 89, 5, 93, 48, 21, 90, 121, 57, 121, 92, 54, 20, 21, 30, 6,
       14, 16, 64, 111, 118, 126, 75, 8, 99, 88, 49, 101, 95, 113, 13, 117,
       37, 26, 86, 28, 92, 101, 53, 113, 11, 98, 34, 116, 26, 50, 35, 43, 103,
       5, 25, 90, 113, 0, 112, 52, 7, 114, 48, 108, 62, 17, 3, 30, 54, 94,
       116, 108, 14, 123, 76, 0, 15, 97, 74, 25, 114, 109, 25, 42, 1, 114, 10,
       17, 69, 117, 2, 64, 10, 73, 63, 68, 117, 25, 53, 8, 50, 24, 81, 97, 11,
       89, 74, 18, 22, 120, 77, 92, 122, 5, 6, 34, 71, 87, 77, 109, 19, 95,
       34, 94, 127, 73, 127, 4, 15, 111, 90, 51, 121, 115, 30, 20, 78, 64, 5,
       94, 46, 108, 86, 66, 75, 72, 99, 88, 11, 111, 44, 14, 110, 112, 74, 46,
       57, 26, 51, 25, 126, 121, 73, 95, 2, 48, 102, 77, 42, 0, 55, 14, 27,
       28, 56, 34, 41, 104, 11, 39, 80, 36, 13, 66, 100, 7, 3, 48, 99, 71,
       103, 54, 63, 44, 90, 99, 31, 72, 94, 8, 54, 82, 29, 12, 123, 97, 51,
       65, 47, 122, 110, 71, 47, 17, 85, 37, 21, 88, 107, 112, 33, 3, 6, 120,
       124, 103, 22, 33, 121, 21, 126, 15, 77, 18, 1, 6, 7, 57, 26, 100, 49,
       37, 78, 1, 123, 102, 45, 36, 18, 61, 71, 35, 17, 123, 11, 95, 71, 37,
       89, 15, 8, 53, 57, 18, 90, 71, 97, 101, 49, 75, 113, 102, 21, 84, 91,
       35, 98, 76, 112, 77, 63, 44, 12, 118, 6, 35, 67, 16, 22, 102, 80, 105,
       10, 20, 99, 101, 28, 109, 1, 25, 22, 60, 58, 75, 71, 69, 49, 10, 22,
       70, 61, 75, 121, 33, 68, 8, 120, 83, 3, 74, 127, 74, 113, 55, 69, 39,
       67, 67, 68, 82, 116, 101, 8, 112, 82, 73, 69, 122, 38, 8, 92, 28, 92,
       17, 13, 12, 89, 62, 58, 7, 62, 113, 81, 93, 6, 86, 77, 3, 47, 31, 112,
       58, 29, 47, 105, 123, 93, 73, 79, 63, 112, 31, 4, 79, 76, 10, 78, 6,
       86, 52, 52, 75, 8, 10, 24, 4, 77, 96, 23, 10, 8, 3, 45, 79, 60, 70, 68,
       60, 3, 90, 99, 9, 42, 10, 100, 41, 1, 59, 122, 57, 75, 19, 124, 49,
       126, 61, 106, 17, 13, 114, 44, 85, 29, 57, 99, 16, 24, 123, 28, 13, 14,
       6, 15, 9, 120, 82, 124, 10, 47, 13, 94, 3, 59, 80, 66, 25, 47, 111, 81,
       10, 30, 0, 32, 97, 66, 87, 25, 1, 56, 32, 120, 78, 2, 122, 13, 66, 102,
       53, 7, 115, 32, 60, 109, 40, 77, 111, 28, 81, 7, 87, 35, 16, 38, 4,
       102, 23, 124, 45, 100, 125, 115, 51, 119, 0, 112, 125, 117, 38, 123,
       109, 12, 3, 40, 56, 31, 53, 77, 41, 62, 72, 44, 112, 107, 114, 51, 55,
       26, 10, 35, 38, 59, 59, 78, 118, 72, 58, 56, 49, 23, 42, 51, 7, 41, 11,
       21, 40, 69, 3, 24, 27, 91, 46, 84, 114, 17, 120, 80, 10, 43, 124, 57,
       123, 77, 76, 97, 120, 113, 85, 93, 49, 27, 89, 69, 98, 42, 9, 2, 85,
       70, 53, 60, 29, 110, 93, 41, 97, 106, 102, 65, 64, 12, 59, 91, 0, 36,
       117, 68, 26, 9, 28, 1, 125, 117, 40, 5, 11, 19, 42, 20, 88, 12, 65,
       105, 101, 127, 51, 83, 107, 50, 49, 113, 75, 64, 111, 17, 65, 88, 45,
       45, 121, 34, 25, 41, 117, 49, 72, 23, 102, 78, 99, 111, 22, 73, 21, 1,
       39, 87, 113, 2, 35, 61, 66, 110, 96, 86, 54, 116, 125, 96, 11, 34, 36,
       18, 66, 57, 61, 87, 127, 29, 22, 42, 18, 95, 86, 44, 95, 76, 6, 69, 35,
       118, 44, 3, 74, 23, 68, 99, 121, 85, 97, 12, 58, 17, 43, 26, 95, 69,
       17, 115, 54, 27, 65, 25, 107, 87, 72, 54, 1, 108, 71, 127, 6, 119, 99,
       91, 45, 63, 47, 7, 47, 103, 102, 51, 113, 59, 55, 80, 93, 123, 24, 71,
       12, 117, 21, 123, 75, 10, 114, 45, 33, 113, 31, 98, 60, 124, 67, 23,
       97, 67, 1, 119, 84, 69, 42, 85, 28, 124, 127, 22, 3, 7, 91, 109, 75,
       74, 124, 25, 84, 106, 43, 36, 90, 16, 42, 38, 50, 4, 9, 51, 105, 99,
       31, 58, 59, 123, 88, 5, 40, 22, 107, 18, 113, 73, 91, 25, 81, 85, 101,
       66, 118, 74, 48, 108, 96, 101, 113, 118, 64, 19, 106, 48, 4, 122, 127,
       50, 17, 36, 53, 61, 95, 23, 107, 108, 85, 81, 78, 12, 65, 123, 63, 66,
       33, 32, 47, 78, 98, 121, 108, 44, 68, 1, 127, 25, 94, 7, 82, 67, 59,
       39, 119, 108, 13, 26, 110, 1, 25, 59, 92, 15, 32, 39, 37, 28, 1, 22,
       85, 81, 53, 119, 34, 47, 120, 81, 44, 41, 71, 117, 20, 70, 87, 3, 17,
       94, 124, 26, 11, 6, 26, 2, 33, 107, 113, 90, 56, 45, 45, 71, 98, 90,
       116, 9, 12, 90, 52, 90, 54, 120, 22, 7, 31, 73, 19, 65, 73, 108, 53,
       46, 89, 84, 24, 114, 81, 44, 92, 65, 66, 114, 52, 4, 20, 124, 69, 40,
       35, 58, 37, 36, 55, 102, 125, 68, 54, 95, 97, 13, 7, 112, 45, 105, 93,
       87, 84, 28, 52, 33, 46, 57, 47, 8, 127, 122, 103, 52, 65, 122, 93, 23,
       8, 82, 15, 102, 91, 82, 41, 54, 63, 2, 39, 55, 10, 49, 33, 120, 24,
       124, 74, 122, 125, 125, 60, 21, 77, 3, 30, 37, 90, 1, 66, 15, 75, 73,
       0, 25, 56, 78, 13, 48, 64, 35, 88, 124, 113, 23, 124, 112, 9, 67, 67,
       84, 39, 18, 110, 95, 53, 113, 23, 25, 39, 60, 36, 83, 93, 60, 103, 96,
       64, 82, 122, 40, 125, 87, 64, 98, 110, 59, 7, 75, 68, 81, 90, 61, 105,
       11, 10, 52, 96, 99, 107, 92, 43, 9, 101, 61, 20, 75, 121, 68, 78, 19,
       127, 82, 62, 89, 52, 68, 63, 120, 14, 73, 65, 1, 90, 36, 56, 89, 74,
       10, 110, 123, 72, 89, 33, 97, 71, 21, 35, 0, 108, 111, 42, 65, 94, 56,
       113, 66, 121, 98, 127, 47, 41, 98, 22, 20, 89, 125, 40, 89, 90, 40, 42,
       61, 10, 112, 100, 41, 119, 89, 36, 116, 12, 122, 72, 32, 38, 101, 7,
       77, 50, 103, 60, 8, 39, 52, 29, 57, 37, 104, 48, 57, 65, 5, 126, 26,
       21, 106, 87, 113, 15, 73, 8, 10, 11, 98, 84, 110, 121, 36, 1, 61, 113,
       37, 99, 6, 57, 93, 21, 20, 106, 11, 34, 116, 126, 12, 15, 97, 109, 104,
       20, 32, 80, 47, 33, 28, 25, 90, 88, 124, 86, 95, 25, 63, 72, 68, 24,
       52, 123, 91, 85, 34, 59, 31, 51, 89, 11, 32, 34, 126, 19, 93, 94, 23,
       96, 2, 77, 76, 48, 17, 58, 63, 15, 76, 13, 103, 78, 49, 50, 69, 115,
       104, 42, 17, 28, 43, 103, 103, 30, 45, 69, 119, 80, 10, 13, 10, 0, 46,
       72, 59, 121, 47, 82, 28, 86, 57, 69, 114, 83, 120, 0, 80, 57, 32, 87,
       74, 43, 20, 47, 8, 37, 101, 26, 34, 78, 20, 51, 104, 107, 15, 3, 30,
       72, 19, 103, 114, 2, 87, 88, 23, 78, 9, 80, 116, 51, 16, 53, 91, 91,
       88, 35, 75, 83, 61, 9, 53, 19, 35, 13, 82, 64, 19, 18, 61, 67, 33, 0,
       47, 119, 114, 12, 72, 74, 82, 36, 82, 15, 0, 29, 100, 61, 111, 71, 95,
       21, 66, 84, 108, 45, 120, 106, 35, 25, 21, 86, 43, 85, 2, 95, 30, 108,
       10, 24, 1, 97, 51, 90, 0, 92, 61, 2, 108, 110, 91, 87, 6, 95, 93, 107,
       24, 38, 103, 109, 82, 38, 69, 9, 55, 70, 125, 102, 26, 86, 115, 65, 26,
       11, 12, 10, 27, 40, 4, 58, 106, 85, 23, 91, 73, 84, 35, 75, 45, 12,
       100, 115, 70, 113, 34, 98, 95, 32, 18, 7, 5, 46, 88, 10, 109, 18, 97,
       42, 89, 2, 119, 33, 118, 101, 72, 30, 22, 3, 74, 6, 54, 0, 90, 82, 44,
       89, 9, 16, 24, 127, 18, 83, 93, 72, 88, 58, 68, 59, 40, 127, 93, 76,
       57, 75, 63, 28, 25, 60, 127, 34, 56, 7, 60, 73, 26, 18, 57, 20, 60, 14,
       54, 47, 95, 23, 42, 59, 79, 12, 85, 4, 17, 8, 105, 47, 8, 123, 32, 65,
       106, 33, 15, 64, 35, 56, 52, 27, 121, 100, 124, 50, 27, 37, 82, 50,
       106, 127, 65, 115, 40, 45, 19, 25, 8, 112, 5, 109, 6, 42, 92, 114, 75,
       118, 8, 100, 119, 58, 126, 104, 53, 80, 46, 91, 112, 77, 85, 2, 95, 42,
       23, 97, 93, 120, 56, 32, 7, 123, 6, 99, 33, 58, 29, 3, 34, 126, 116,
       119, 50, 6, 26, 54, 13, 41, 7, 83, 51, 14, 53, 77, 10, 118, 66, 37, 44,
       31, 2, 90, 60, 110, 20, 52, 23, 6, 96, 46, 54, 50, 45, 37, 70, 70, 93,
       3, 80, 90, 121, 120, 91, 53, 43, 83, 122, 61, 2, 40, 24, 30, 15, 123,
       48, 127, 45, 91, 49, 76, 80, 8, 44, 53, 61, 84, 86, 123, 118, 24, 122,
       114, 47, 115, 49, 31, 126, 72, 107, 46, 112, 115, 14, 120, 37, 8, 54,
       75, 39, 39, 59, 72, 120, 24, 49, 26, 64, 87, 41, 55, 75, 47, 69, 43,
       23, 98, 7, 9, 96, 7, 106, 57, 43, 109, 25, 115, 12, 100, 79, 28, 74,
       17, 119, 44, 86, 30, 73, 96, 76, 114, 116, 44, 117, 7, 21, 37, 15, 64,
       16, 114, 1, 2, 108, 121, 123, 26, 64, 29, 97, 82, 84, 119, 83, 111, 50,
       28, 122, 7, 39, 110, 12, 49, 6, 92, 100, 34, 99, 30, 109, 64, 102, 57,
       28, 23, 46, 47, 35, 96, 110, 6, 0, 41, 39, 10, 83, 111, 81, 76, 0, 122,
       14, 12, 21, 39, 28, 84, 65, 94, 3, 99, 105, 127, 59, 95, 83, 82, 46,
       58, 108, 124, 13, 108, 110, 49, 31, 18, 65, 107, 72, 40, 86, 1, 69, 9,
       92, 74, 6, 80, 68, 105, 64, 0, 79, 6, 13, 96, 90, 43, 10, 42, 5, 14, 6,
       119, 125, 82, 20, 119, 87, 70, 7, 50, 77, 94, 27, 75, 76, 33, 94, 126,
       86, 119, 69, 126, 91, 92, 0, 30, 6, 21, 30, 24, 57, 11, 97, 70, 3, 116,
       26, 114, 67, 63, 41, 55, 10, 3, 36, 11, 3, 120, 1, 11, 107, 32, 40, 71,
       91, 49, 31, 49, 94, 9, 113, 126, 2, 79, 77, 15, 116, 48, 98, 20, 15,
       12, 93, 118, 96, 75, 20, 8, 84, 31, 79, 103, 25, 125, 104, 6, 109, 42,
       9, 24, 60, 122, 75, 116, 1, 27, 66, 44, 120, 38, 42, 90, 63, 53, 119,
       94, 111, 46, 121, 88, 11, 44, 127, 13, 42, 87, 46, 108, 23, 38, 103,
       87, 75, 16, 58, 19, 63, 58, 65, 44, 74, 27, 19, 116, 92, 9, 33, 62, 2,
       20, 122, 68, 12, 107, 102, 48, 98, 3, 54, 9, 77, 96, 30, 104, 27, 65,
       113, 13, 95, 11, 98, 27, 58, 52, 4, 1, 98, 72, 122, 37, 40, 75, 80, 87,
       18, 11, 123, 124, 90, 5, 8, 63, 89, 80, 86, 63, 55, 69, 74, 47, 119,
       116, 87, 90, 60, 68, 123, 45, 81, 38, 99, 93, 71, 90, 96, 16, 99, 67,
       63, 96, 59, 112, 25, 18, 83, 67, 93, 120, 52, 4, 8, 118, 90, 115, 82,
       20, 82, 98, 19, 3, 113, 114, 93, 59, 102, 28, 18, 18, 34, 125, 68, 67,
       0, 65, 124, 54, 22, 91, 19, 107, 101, 54, 30, 52, 73, 105, 83, 73, 25,
       68, 6, 1, 90, 64, 112, 109, 103, 91, 13, 24, 42, 72, 57, 4, 4, 88, 113,
       86, 106, 31, 124, 19, 117, 79, 107, 13, 38, 9, 83, 51, 111, 39, 1, 86,
       9, 46, 126, 99, 11, 90, 116, 101, 48, 24, 31, 115, 48, 24, 112, 41, 82,
       101, 15, 62, 105, 57, 44, 55, 105, 43, 64, 78, 110, 94, 70, 124, 45,
       92, 126, 51, 125, 98, 70, 88, 66, 28, 77, 123, 86, 42, 34, 18, 119,
       112, 53, 110, 127, 100, 73, 95, 117, 22, 117, 58, 35, 12, 4, 50, 74,
       21, 73, 73, 43, 112, 45, 2, 35, 73, 11, 19, 58, 83, 66, 0, 55, 27, 108,
       5, 55, 31, 96, 124, 96, 99, 64, 58, 59, 124, 29, 16, 87, 31, 110, 84,
       124, 77, 102, 100, 123, 76, 74, 86, 57, 45, 125, 59, 85, 28, 9, 21,
       109, 98, 76, 43, 109, 54, 51, 112, 80, 63, 76, 51, 78, 64, 112, 51, 50,
       57, 86, 81, 120, 77, 11, 71, 109, 36, 88, 65, 56, 23, 4, 8, 63, 84, 21,
       112, 24, 55, 64, 86, 80, 90, 119, 108, 80, 69, 98, 112, 69, 46, 3, 122,
       42, 24, 15, 50, 77, 30, 38, 96, 78, 13, 43, 116, 5, 85, 29, 108, 119,
       13, 57, 117, 84, 95, 69, 105, 59, 51, 87, 55, 115, 73, 80, 120, 100,
       26, 44, 109, 35, 82, 1, 82, 68, 57, 8, 14, 34, 100, 59, 23, 47, 32, 26,
       28, 53, 13, 117, 127, 71, 67, 84, 65, 127, 25, 81, 32, 121, 55, 89, 5,
       103, 40, 77, 6, 127, 62, 70, 87, 43, 42, 83, 8, 11, 119, 54, 106, 120,
       106, 18, 4, 52, 110, 38, 78, 79, 96, 109, 14, 41, 94, 72, 53, 3, 24,
       30, 51, 53, 86, 81, 8, 112, 51, 113, 99, 65, 49, 33, 68, 105, 8, 108,
       80, 101, 31, 85, 86, 80, 89, 50, 84, 73, 30, 47, 95, 90, 64, 112, 90,
       38, 54, 94, 103, 13, 84, 11, 86, 24, 116, 37, 109, 55, 64, 49, 50, 115,
       74, 6, 20, 110, 92, 30, 13, 38, 49, 59, 91, 56, 60, 73, 74, 4, 118, 76,
       77, 5, 48, 20, 19, 36, 73, 65, 66, 93, 11, 4, 55, 3, 118, 52, 60, 29,
       80, 91, 14, 104, 6, 115, 93, 126, 34, 123, 39, 30, 4, 72, 73, 16, 100,
       69, 105, 89, 1, 80, 39, 125, 5, 48, 117, 54, 28, 115, 79, 102, 127, 23,
       86, 50, 121, 99, 33, 7, 36, 104, 107, 114, 6, 82, 110, 15, 121, 70, 71,
       19, 95, 113, 38, 31, 108, 6, 76, 57, 35, 30, 118, 110, 122, 22, 95, 15,
       127, 47, 80, 56, 63, 69, 95, 123, 65, 50, 5, 111, 15, 16, 108, 61, 45,
       113, 92, 106, 41, 82, 25, 11, 89, 127, 76, 46, 61, 85, 59, 12, 30, 12,
       9, 53, 107, 101, 68, 96, 98, 49, 89, 32, 22, 73, 114, 56, 15, 31, 99,
       16, 60, 7, 70, 11, 77, 99, 42, 122, 108, 102, 93, 85, 97, 57, 124, 35,
       99, 61, 70, 51, 66, 106, 23, 123, 113, 51, 31, 35, 74, 93, 107, 118,
       22, 124, 117, 125, 111, 101, 31, 106, 94, 60, 39, 88, 1, 27, 12, 127,
       47, 30, 82, 98, 96, 100, 116, 112, 122, 47, 73, 62, 89, 2, 106, 112,
       22, 74, 125, 18, 59, 43, 112, 49, 20, 60, 97, 39, 106, 34, 115, 66, 9,
       96, 126, 60, 53, 57, 48, 49, 44, 120, 28, 97, 96, 88, 124, 7, 87, 97,
       50, 55, 97, 88, 46, 60, 86, 10, 1, 69, 58, 93, 34, 21, 19, 78, 83, 34,
       119, 1, 15, 6, 98, 49, 11, 31, 80, 22, 25, 42, 42, 100, 25, 65, 96, 73,
       12, 115, 94, 30, 14, 114, 48, 86, 100, 92, 11, 117, 41, 20, 119, 51,
       111, 68, 22, 67, 13, 126, 28, 30, 45, 34, 82, 99, 100, 101, 122, 41,
       74, 6, 35, 63, 97, 71, 37, 109, 76, 73, 17, 69, 81, 99, 65, 84, 45, 80,
       52, 2, 19, 90, 104, 56, 44, 69, 78, 69, 72, 99, 74, 20, 117, 111, 25,
       18, 110, 105, 34, 108, 105, 4, 66, 70, 84, 105, 75, 40, 92, 19, 82,
       120, 19, 28, 97, 127, 4, 43, 100, 120, 10, 71, 4, 9, 82, 29, 27, 78,
       13, 1, 32, 29, 50, 47, 14, 13, 126, 120, 39, 66, 1, 46, 60, 46, 81, 14,
       11, 77, 76, 85, 40, 95, 96, 110, 44, 110, 76, 47, 61, 29, 82, 11, 121,
       88, 100, 82, 62, 14, 105, 92, 34, 113, 122, 3, 113, 80, 121, 99, 121,
       94, 107, 34, 92, 48, 60, 10, 96, 28, 94, 74, 46, 114, 90, 43, 95, 85,
       75, 119, 55, 91, 17, 27, 63, 42, 10, 119, 39, 1, 107, 63, 68, 46, 72,
       22, 46, 71, 88, 40, 101, 35, 8, 105, 51, 89, 65, 113, 43, 0, 107, 103,
       93, 60, 91, 64, 83, 117, 4, 66, 12, 115, 24, 101, 29, 9, 86, 111, 20,
       39, 121, 68, 89, 65, 95, 80, 112, 8, 23, 66, 83, 85, 70, 36, 100, 100,
       108, 65, 39, 58, 71, 24, 122, 20, 55, 45, 24, 61, 82, 119, 59, 88, 98,
       20, 68, 30, 31, 117, 64, 4, 122, 119, 90, 102, 127, 110, 106, 24, 122,
       108, 20, 62, 73, 56, 49, 34, 105, 43, 18, 88, 29, 35, 94, 123, 3>>)
    @@
    (10 :> <<
       73, 4, 54, 61, 73, 1, 26, 59, 104, 62, 105, 35, 83, 103, 20, 4, 66, 62,
       41, 9, 31, 121, 121, 95, 127, 46, 5, 53, 110, 17, 77, 45, 48, 53, 36,
       105, 86, 33, 58, 22, 87, 38, 84, 46, 17, 58, 98, 110, 125, 30, 124, 56,
       78, 48, 5, 74, 0, 30, 17, 24, 120, 116, 38, 68, 46, 98, 114, 30, 40,
       85, 70, 57, 55, 60, 8, 83, 74, 41, 108, 64, 20, 107, 28, 124, 52, 30,
       4, 4, 63, 38, 104, 77, 84, 9, 68, 118, 109, 10, 19, 49, 72, 121, 47,
       116, 76, 19, 14, 123, 99, 98, 12, 56, 21, 125, 103, 24, 121, 44, 55,
       124, 53, 57, 31, 87, 35, 18, 79, 66, 22, 110, 15, 34, 58, 38, 21, 84,
       83, 120, 105, 22, 99, 22, 61, 98, 44, 41, 55, 28, 0, 69, 91, 5, 42,
       114, 40, 31, 10, 33, 57, 51, 74, 20, 49, 117, 111, 63, 86, 114, 30, 94,
       67, 127, 116, 34, 66, 61, 77, 63, 8, 21, 62, 86, 59, 114, 51, 17, 53,
       69, 74, 44, 68, 49, 62, 89, 21, 71, 56, 12, 123, 124, 53, 106, 4, 111,
       0, 56, 68, 8, 6, 44, 11, 19, 13, 77, 58, 106, 127, 102, 62, 17, 58,
       110, 55, 99, 64, 118, 57, 43, 92, 33, 114, 100, 89, 58, 54, 42, 83, 66,
       116, 66, 19, 94, 30, 41, 79, 4, 87, 25, 82, 115, 75, 73, 106, 80, 61,
       3, 103, 14, 123, 37, 55, 108, 109, 31, 91, 37, 113, 11, 5, 76, 116, 70,
       98, 125, 123, 13, 125, 104, 36, 20, 85, 61, 18, 46, 76, 51, 117, 100,
       24, 126, 44, 23, 10, 75, 24, 54, 26, 126, 12, 87, 127, 39, 113, 123,
       59, 110, 95, 96, 88, 105, 66, 92, 54, 57, 85, 95, 71, 26, 34, 76, 46,
       14, 80, 100, 80, 0, 26, 54, 78, 52, 111, 48, 111, 103, 83, 25, 8, 98,
       54, 102, 11, 105, 7, 44, 32, 46, 58, 54, 97, 24, 80, 95, 36, 59, 88,
       37, 64, 63, 64, 116, 33, 51, 56, 81, 43, 44, 92, 35, 61, 115, 57, 109,
       61, 75, 61, 10, 88, 69, 92, 46, 102, 92, 51, 116, 101, 21, 123, 77,
       127, 53, 92, 72, 8, 76, 108, 93, 107, 39, 2, 75, 41, 83, 41, 9, 94, 50,
       78, 47, 36, 77, 23, 30, 21, 39, 12, 71, 101, 104, 119, 6, 28, 72, 95,
       9, 121, 53, 24, 72, 73, 125, 56, 117, 124, 102, 111, 75, 2, 50, 25, 43,
       108, 113, 73, 24, 66, 119, 103, 72, 97, 98, 122, 106, 41, 111, 6, 84,
       88, 74, 6, 4, 72, 46, 110, 119, 50, 41, 76, 81, 21, 98, 20, 15, 77,
       101, 110, 44, 127, 21, 3, 92, 117, 68, 65, 103, 44, 11, 50, 56, 73,
       112, 44, 7, 18, 118, 110, 56, 90, 60, 78, 57, 92, 56, 126, 77, 22, 45,
       105, 54, 105, 105, 43, 122, 71, 65, 58, 49, 24, 12, 55, 82, 19, 5, 119,
       110, 23, 81, 81, 24, 72, 54, 124, 116, 101, 115, 46, 71, 48, 122, 6,
       77, 6, 21, 39, 122, 121, 28, 6, 74, 22, 12, 81, 72, 46, 107, 23, 38,
       121, 108, 5, 50, 76, 97, 54, 9, 44, 97, 24, 62, 20, 21, 51, 103, 96,
       123, 59, 120, 99, 42, 112, 4, 22, 106, 112, 22, 74, 90, 53, 19, 65, 82,
       113, 89, 50, 124, 12, 50, 122, 104, 15, 30, 13, 54, 92, 81, 39, 92, 37,
       68, 83, 108, 114, 12, 44, 106, 116, 66, 79, 60, 77, 31, 68, 37, 1, 85,
       20, 123, 86, 49, 88, 29, 12, 65, 81, 97, 60, 12, 73, 115, 51, 74, 27,
       36, 45, 8, 124, 112, 24, 79, 110, 71, 67, 3, 9, 51, 103, 4, 2, 83, 107,
       55, 43, 106, 117, 22, 93, 6, 45, 41, 80, 60, 126, 100, 21, 2, 26, 16,
       37, 122, 105, 25, 31, 115, 31, 49, 78, 69, 74, 76, 53, 111, 70, 97, 3,
       16, 0, 15, 3, 107, 7, 87, 98, 98, 125, 22, 15, 88, 49, 8, 1, 84, 55,
       94, 84, 23, 79, 53, 115, 6, 70, 21, 6, 89, 48, 74, 58, 58, 42, 23, 4,
       51, 80, 58, 62, 121, 90, 91, 46, 85, 9, 17, 33, 32, 22, 11, 58, 1, 19,
       35, 10, 116, 67, 39, 18, 98, 13, 68, 15, 36, 90, 79, 103, 42, 103, 0,
       73, 33, 81, 119, 96, 66, 54, 112, 65, 18, 91, 7, 81, 7, 77, 7, 82, 27,
       68, 1, 27, 18, 39, 110, 88, 107, 53, 19, 109, 3, 47, 66, 85, 90, 14,
       61, 38, 59, 108, 59, 22, 115, 80, 18, 3, 51, 77, 19, 57, 84, 115, 89,
       105, 104, 98, 22, 43, 64, 85, 60, 19, 5, 62, 75, 49, 21, 60, 89, 35,
       125, 27, 63, 66, 45, 83, 122, 72, 98, 121, 109, 71, 48, 19, 114, 82,
       121, 40, 94, 120, 40, 16, 7, 58, 6, 86, 42, 124, 67, 66, 6, 48, 78, 99,
       117, 100, 10, 116, 89, 92, 4, 16, 4, 126, 1, 119, 46, 55, 28, 84, 61,
       106, 72, 117, 84, 92, 119, 11, 13, 8, 122, 46, 103, 58, 54, 39, 22, 95,
       16, 97, 80, 51, 69, 89, 69, 24, 87, 121, 95, 30, 92, 19, 107, 48, 27,
       110, 65, 76, 62, 87, 106, 104, 84, 49, 100, 122, 24, 126, 8, 68, 93,
       95, 19, 109, 77, 75, 68, 16, 9, 84, 50, 58, 11, 109, 121, 26, 120, 1,
       58, 22, 85, 21, 46, 49, 80, 26, 31, 42, 38, 75, 33, 19, 7, 62, 53, 45,
       43, 0, 41, 86, 37, 64, 114, 99, 89, 112, 75, 6, 52, 91, 36, 58, 21,
       111, 105, 14, 114, 107, 53, 54, 126, 11, 15, 59, 20, 112, 101, 9, 104,
       48, 68, 10, 122, 0, 66, 105, 92, 70, 33, 73, 61, 115, 110, 10, 53, 120,
       14, 96, 52, 108, 61, 104, 28, 50, 114, 2, 56, 127, 58, 81, 72, 91, 63,
       89, 53, 38, 71, 84, 19, 57, 21, 29, 60, 63, 73, 59, 51, 38, 124, 95,
       70, 116, 57, 76, 97, 2, 64, 69, 47, 80, 90, 104, 59, 38, 23, 30, 28,
       47, 77, 20, 67, 99, 106, 3, 69, 72, 102, 106, 109, 4, 7, 21, 53, 126,
       97, 39, 21, 98, 25, 3, 21, 59, 40, 5, 64, 31, 4, 2, 18, 86, 62, 58, 98,
       45, 2, 53, 80, 87, 45, 33, 2, 19, 32, 5, 18, 83, 87, 85, 114, 30, 14,
       65, 91, 124, 119, 60, 99, 98, 37, 44, 40, 70, 54, 99, 110, 89, 42, 76,
       104, 37, 54, 7, 13, 61, 85, 92, 91, 46, 62, 92, 55, 60, 45, 8, 20, 74,
       24, 70, 96, 41, 36, 25, 0, 126, 93, 74, 54, 92, 98, 5, 97, 93, 21, 20,
       101, 61, 46, 50, 15, 49, 31, 101, 123, 25, 115, 120, 73, 108, 9, 62,
       104, 112, 6, 70, 107, 117, 32, 62, 10, 125, 99, 95, 116, 84, 78, 127,
       125, 89, 11, 31, 110, 82, 22, 21, 57, 51, 114, 90, 71, 24, 87, 54, 89,
       29, 55, 52, 24, 29, 92, 89, 109, 106, 46, 61, 107, 91, 16, 96, 118,
       103, 25, 102, 73, 84, 108, 94, 6, 93, 87, 66, 89, 101, 23, 24, 10, 92,
       50, 81, 87, 69, 0, 77, 64, 117, 29, 101, 115, 88, 91, 115, 72, 111,
       118, 41, 40, 110, 62, 113, 117, 74, 120, 118, 80, 22, 102, 102, 60, 31,
       48, 51, 59, 65, 13, 53, 77, 66, 93, 11, 31, 7, 13, 92, 8, 34, 31, 35,
       92, 89, 43, 96, 36, 68, 47, 104, 17, 44, 98, 113, 72, 81, 101, 108,
       116, 104, 16, 89, 9, 118, 1, 96, 98, 57, 82, 15, 117, 51, 122, 78, 79,
       2, 20, 76, 17, 52, 30, 60, 59, 8, 21, 10, 43, 83, 84, 34, 98, 19, 81,
       110, 113, 7, 56, 89, 94, 105, 66, 114, 5, 84, 124, 6, 4, 56, 113, 111,
       67, 52, 70, 68, 39, 95, 77, 73, 87, 46, 37, 75, 17, 59, 92, 42, 45, 8,
       113, 33, 90, 127, 112, 37, 83, 44, 89, 125, 71, 13, 120, 32, 80, 48,
       40, 59, 54, 51, 21, 35, 14, 19, 118, 71, 79, 21, 108, 0, 56, 97, 102,
       97, 118, 46, 55, 112, 34, 20, 40, 115, 24, 87, 81, 85, 16, 6, 6, 97,
       74, 21, 72, 68, 119, 70, 19, 7, 73, 37, 45, 117, 59, 97, 46, 39, 110,
       125, 32, 9, 25, 83, 124, 102, 45, 108, 8, 82, 9, 94, 72, 31, 56, 100,
       69, 87, 30, 73, 79, 34, 71, 86, 37, 6, 108, 64, 55, 84, 92, 43, 59, 76,
       89, 7, 47, 42, 61, 62, 36, 106, 124, 68, 62, 119, 0, 47, 32, 114, 74,
       74, 82, 60, 119, 23, 104, 105, 105, 101, 29, 49, 55, 41, 87, 35, 13,
       43, 14, 11, 13, 109, 32, 55, 30, 22, 69, 87, 97, 22, 98, 112, 110, 0,
       64, 70, 36, 81, 20, 43, 73, 24, 115, 115, 125, 75, 92, 88, 15, 21, 40,
       1, 43, 116, 60, 24, 57, 7, 76, 99, 61, 72, 17, 2, 110, 71, 37, 65, 22,
       118, 66, 75, 13, 19, 63, 80, 127, 102, 95, 123, 124, 39, 121, 73, 38,
       6, 49, 122, 21, 18, 48, 83, 83, 109, 1, 61, 55, 125, 113, 52, 77, 72,
       80, 109, 81, 2, 3, 110, 118, 108, 74, 21, 124, 89, 98, 35, 51, 24, 75,
       65, 76, 91, 61, 48, 30, 43, 69, 28, 46, 73, 108, 74, 4, 111, 73, 106,
       123, 1, 102, 18, 1, 16, 26, 34, 31, 95, 9, 62, 52, 93, 7, 107, 57, 47,
       89, 0, 80, 27, 22, 78, 125, 73, 104, 26, 88, 96, 44, 3, 37, 19, 111,
       66, 100, 77, 123, 117, 62, 49, 11, 104, 16, 60, 9, 38, 85, 121, 23, 63,
       99, 90, 60, 37, 97, 113, 7, 61, 37, 5, 46, 8, 10, 45, 67, 54, 4, 14,
       121, 108, 87, 71, 126, 121, 117, 83, 120, 102, 112, 21, 16, 5, 101, 29,
       85, 53, 113, 6, 9, 118, 121, 38, 111, 101, 119, 5, 52, 108, 47, 42,
       118, 65, 77, 78, 114, 78, 124, 37, 49, 32, 117, 49, 1, 71, 69, 0, 59,
       29, 71, 8, 48, 106, 69, 89, 45, 106, 34, 85, 69, 4, 6, 41, 74, 112, 84,
       59, 39, 41, 21, 20, 44, 116, 63, 12, 95, 46, 28, 40, 6, 81, 39, 116,
       115, 94, 0, 123, 65, 36, 14, 95, 95, 91, 46, 6, 16, 73, 125, 112, 110,
       3, 34, 29, 45, 68, 2, 77, 38, 69, 118, 113, 87, 48, 118, 84, 91, 69,
       81, 105, 111, 50, 79, 117, 57, 108, 40, 92, 0, 117, 109, 84, 16, 37,
       123, 122, 24, 45, 122, 44, 122, 80, 104, 64, 114, 127, 36, 53, 89, 119,
       12, 57, 18, 28, 48, 68, 42, 86, 86, 38, 31, 75, 87, 55, 122, 2, 103, 8,
       29, 48, 98, 89, 26, 20, 6, 123, 10, 46, 47, 13, 86, 23, 94, 117, 84,
       108, 76, 84, 118, 7, 122, 82, 9, 2, 52, 30, 89, 8, 71, 85, 55, 104, 63,
       33, 14, 127, 2, 69, 13, 108, 102, 25, 72, 101, 79, 80, 109, 9, 106, 97,
       117, 97, 123, 48, 82, 33, 122, 9, 41, 77, 14, 38, 91, 29, 30, 57, 107,
       16, 61, 84, 100, 41, 96, 37, 25, 55, 6, 55, 16, 55, 122, 32, 18, 96,
       46, 114, 18, 72, 126, 92, 99, 103, 103, 36, 85, 111, 123, 72, 81, 81,
       65, 70, 51, 113, 26, 62, 51, 90, 12, 33, 6, 20, 50, 69, 87, 105, 12,
       18, 66, 92, 28, 35, 28, 14, 7, 103, 101, 7, 88, 53, 51, 83, 64, 89, 4,
       98, 92, 12, 116, 16, 54, 39, 6, 107, 28, 114, 125, 54, 40, 36, 56, 78,
       69, 55, 105, 2, 122, 77, 27, 118, 20, 85, 107, 92, 26, 9, 4, 78, 18,
       120, 77, 34, 96, 41, 120, 32, 67, 76, 119, 44, 83, 108, 6, 86, 97, 69,
       17, 97, 73, 26, 50, 32, 62, 54, 73, 50, 86, 56, 45, 126, 53, 41, 125,
       108, 71, 106, 29, 40, 68, 50, 5, 2, 96, 88, 122, 62, 59, 21, 115, 115,
       4, 57, 96, 30, 4, 60, 75, 21, 9, 30, 89, 82, 90, 83, 121, 13, 69, 94,
       82, 98, 20, 68, 27, 77, 47, 78, 105, 99, 20, 91, 124, 100, 6, 66, 125,
       59, 30, 18, 90, 85, 59, 82, 9, 98, 99, 82, 31, 63, 12, 7, 22, 83, 99,
       86, 21, 17, 78, 30, 9, 59, 5, 14, 102, 127, 12, 9, 104, 89, 98, 111,
       108, 7, 12, 61, 106, 56, 9, 125, 76, 123, 76, 74, 26, 95, 97, 110, 98,
       13, 25, 14, 121, 81, 73, 116, 111, 90, 84, 116, 47, 21, 67, 35, 40, 24,
       64, 69, 26, 122, 55, 25, 68, 57, 105, 59, 74, 69, 94, 38, 84, 57, 98,
       0, 44, 0, 33, 67, 32, 13, 123, 78, 52, 52, 38, 55, 9, 38, 20, 110, 98,
       44, 18, 110, 14, 8, 48, 81, 34, 23, 30, 118, 112, 5, 43, 106, 32, 98,
       55, 50, 66, 8, 93, 90, 33, 92, 121, 101, 93, 86, 43, 105, 90, 50, 31,
       82, 1, 115, 95, 37, 110, 29, 108, 38, 30, 2, 26, 107, 118, 22, 24, 1,
       15, 33, 33, 60, 14, 115, 122, 44, 120, 110, 103, 119, 124, 126, 10, 74,
       124, 84, 123, 70, 90, 100, 51, 87, 41, 13, 50, 52, 54, 109, 97, 53, 75,
       100, 90, 108, 125, 98, 6, 93, 45, 42, 0, 64, 76, 107, 13, 55, 69, 73,
       65, 6, 77, 55, 15, 63, 73, 20, 114, 49, 102, 9, 33, 123, 14, 17, 89,
       91, 85, 34, 44, 125, 38, 110, 77, 68, 101, 31, 85, 12, 55, 54, 113, 42,
       96, 27, 48, 118, 8, 78, 55, 15, 15, 59, 62, 41, 42, 101, 18, 73, 5, 2,
       126, 67, 88, 61, 81, 33, 116, 55, 94, 33, 19, 16, 50, 38, 123, 127,
       100, 7, 108, 73, 46, 104, 106, 110, 73, 58, 69, 91, 47, 60, 1, 72, 37,
       19, 64, 105, 108, 102, 85, 34, 22, 77, 125, 26, 64, 101, 79, 16, 9, 25,
       11, 60, 42, 41, 96, 56, 43, 15, 46, 90, 110, 20, 91, 12, 87, 68, 4,
       105, 66, 84, 108, 93, 72, 33, 11, 46, 77, 76, 92, 39, 72, 46, 17, 98,
       58, 10, 113, 82, 101, 37, 92, 33, 58, 103, 55, 105, 100, 8, 124, 11,
       65, 45, 62, 56, 45, 51, 110, 82, 20, 47, 79, 29, 104, 124, 89, 127, 5,
       104, 104, 108, 27, 125, 48, 100, 4, 72, 12, 6, 90, 26, 117, 75, 43, 62,
       52, 108, 91, 1, 58, 53, 1, 9, 96, 35, 118, 48, 3, 94, 125, 96, 29, 89,
       54, 55, 23, 66, 75, 95, 4, 89, 65, 24, 100, 110, 43, 104, 52, 92, 51,
       82, 123, 69, 60, 23, 66, 9, 118, 11, 13, 5, 126, 28, 107, 127, 92, 74,
       107, 0, 108, 107, 96, 7, 97, 52, 40, 73, 93, 35, 87, 110, 89, 58, 117,
       78, 85, 114, 65, 42, 73, 99, 8, 96, 109, 68, 21, 40, 61, 126, 82, 57,
       57, 54, 49, 78, 56, 30, 103, 59, 87, 35, 112, 70, 19, 17, 17, 3, 93,
       89, 45, 31, 5, 1, 125, 19, 100, 101, 79, 118, 11, 122, 81, 51, 13, 57,
       22, 76, 5, 118, 77, 95, 62, 106, 4, 12, 7, 69, 100, 85, 21, 31, 86, 49,
       42, 9, 94, 97, 127, 69, 53, 15, 26, 96, 109, 121, 88, 61, 48, 115, 76,
       77, 64, 45, 127, 59, 110, 123, 65, 111, 109, 55, 75, 75, 100, 42, 63,
       108, 79, 106, 42, 43, 70, 44, 119, 121, 126, 69, 80, 8, 27, 17, 105,
       110, 37, 118, 106, 16, 116, 107, 115, 9, 39, 41, 9, 55, 17, 113, 99,
       58, 120, 48, 64, 66, 71, 8, 53, 62, 119, 30, 96, 20, 69, 7, 81, 114,
       20, 30, 53, 86, 89, 51, 94, 50, 111, 105, 103, 32, 19, 57, 39, 57, 52,
       98, 75, 117, 6, 50, 85, 5, 48, 8, 102, 84, 123, 91, 11, 3, 51, 124, 55,
       70, 10, 23, 50, 2, 86, 49, 65, 21, 100, 117, 56, 18, 113, 88, 40, 56,
       76, 118, 14, 61, 3, 82, 87, 126, 51, 47, 60, 67, 113, 58, 58, 94, 5,
       31, 67, 11, 56, 98, 17, 78, 25, 60, 112, 57, 22, 110, 38, 39, 62, 34,
       80, 107, 63, 39, 21, 105, 34, 7, 53, 41, 9, 39, 53, 108, 14, 56, 14,
       127, 102, 97, 105, 88, 30, 44, 28, 68, 8, 71, 70, 58, 123, 13, 87, 40,
       25, 65, 82, 37, 16, 71, 103, 35, 96, 106, 8, 24, 116, 90, 113, 95, 45,
       122, 117, 100, 38, 66, 53, 26, 38, 5, 54, 73, 100, 107, 66, 82, 103,
       73, 26, 117, 50, 92, 126, 83, 110, 112, 2, 78, 120, 119, 102, 1, 23,
       97, 42, 34, 121, 125, 64, 114, 84, 104, 117, 106, 4, 11, 65, 0, 52, 50,
       103, 3, 4, 124, 7, 10, 12, 42, 69, 35, 60, 68, 72, 104, 68, 8, 34, 53,
       50, 15, 100, 77, 68, 68, 22, 16, 102, 88, 75, 21, 81, 20, 72, 99, 115,
       16, 124, 77, 49, 92, 106, 13, 63, 110, 41, 39, 11, 73, 77, 48, 80, 126,
       29, 114, 125, 46, 119, 41, 94>>)
    @@
    (11 :> <<
       57, 110, 71, 109, 118, 99, 59, 57, 65, 109, 75, 24, 23, 102, 65, 60,
       80, 78, 101, 23, 12, 57, 38, 18, 11, 68, 103, 113, 88, 81, 5, 76, 125,
       50, 123, 57, 83, 94, 78, 83, 20, 79, 1, 106, 67, 8, 7, 4, 24, 112, 30,
       76, 3, 99, 59, 41, 56, 75, 107, 25, 66, 29, 81, 37, 63, 0, 84, 10, 58,
       83, 35, 52, 127, 70, 127, 119, 107, 10, 90, 32, 40, 97, 29, 65, 36, 3,
       8, 72, 98, 13, 51, 13, 108, 37, 49, 8, 122, 2, 108, 87, 0, 27, 26, 118,
       116, 6, 60, 48, 125, 90, 50, 53, 9, 72, 80, 25, 99, 86, 34, 43, 11, 39,
       42, 1, 123, 52, 97, 118, 15, 17, 31, 90, 12, 1, 7, 59, 102, 62, 22, 87,
       71, 24, 57, 65, 24, 126, 93, 98, 16, 53, 82, 49, 14, 50, 53, 126, 27,
       0, 34, 110, 124, 124, 102, 75, 38, 127, 113, 2, 26, 23, 50, 127, 109,
       77, 82, 73, 12, 5, 126, 18, 27, 56, 33, 1, 98, 78, 42, 106, 37, 49, 9,
       9, 11, 26, 74, 81, 31, 1, 76, 47, 47, 79, 58, 16, 122, 75, 61, 106, 73,
       17, 110, 49, 23, 80, 19, 39, 116, 29, 104, 78, 31, 92, 24, 20, 94, 80,
       120, 70, 25, 87, 121, 49, 112, 61, 77, 10, 53, 6, 13, 13, 4, 65, 123,
       32, 30, 94, 90, 50, 32, 53, 105, 115, 76, 62, 37, 66, 22, 118, 92, 125,
       8, 16, 29, 61, 71, 83, 109, 78, 78, 9, 35, 27, 117, 117, 26, 95, 2, 8,
       34, 52, 57, 31, 7, 5, 22, 36, 47, 67, 73, 124, 16, 11, 46, 17, 114, 57,
       125, 42, 84, 93, 88, 66, 74, 121, 17, 75, 4, 118, 2, 60, 116, 45, 89,
       39, 123, 4, 2, 76, 81, 9, 61, 8, 93, 39, 40, 17, 127, 9, 9, 57, 69, 47,
       94, 5, 115, 119, 94, 94, 90, 16, 101, 123, 117, 43, 45, 10, 87, 60,
       115, 9, 111, 109, 53, 120, 101, 3, 110, 63, 73, 1, 79, 84, 48, 48, 74,
       1, 77, 9, 10, 11, 81, 14, 127, 32, 112, 53, 93, 42, 49, 119, 94, 88,
       74, 58, 56, 59, 107, 69, 10, 66, 96, 65, 3, 39, 76, 11, 61, 2, 29, 122,
       89, 14, 63, 99, 78, 84, 117, 62, 32, 114, 1, 47, 38, 18, 86, 78, 25,
       66, 21, 96, 115, 43, 84, 119, 56, 63, 114, 30, 41, 51, 85, 32, 25, 81,
       55, 102, 103, 96, 117, 25, 112, 27, 49, 28, 74, 117, 40, 26, 17, 17,
       63, 44, 107, 114, 108, 5, 91, 8, 121, 125, 35, 105, 21, 14, 57, 60, 35,
       118, 27, 106, 52, 48, 80, 66, 63, 86, 40, 91, 107, 107, 125, 79, 57,
       41, 9, 106, 4, 35, 111, 77, 5, 86, 90, 35, 73, 45, 39, 83, 101, 72, 2,
       82, 17, 51, 58, 24, 3, 98, 106, 34, 30, 99, 18, 101, 6, 125, 80, 14,
       57, 13, 80, 68, 83, 81, 103, 47, 122, 9, 87, 25, 25, 105, 60, 32, 22,
       91, 1, 96, 60, 68, 91, 4, 22, 28, 34, 99, 44, 69, 89, 121, 66, 64, 78,
       127, 96, 20, 50, 108, 101, 89, 115, 28, 11, 52, 119, 114, 92, 49, 16,
       57, 58, 25, 80, 113, 116, 0, 48, 70, 72, 83, 112, 64, 101, 104, 120,
       43, 59, 41, 83, 125, 26, 12, 92, 110, 104, 102, 82, 118, 91, 15, 27,
       31, 115, 49, 125, 11, 125, 39, 68, 125, 101, 119, 41, 33, 116, 91, 109,
       2, 44, 64, 10, 4, 56, 43, 70, 53, 98, 35, 62, 117, 3, 27, 103, 111, 8,
       54, 102, 4, 22, 68, 42, 87, 100, 117, 17, 60, 19, 127, 66, 115, 92, 66,
       107, 86, 88, 56, 121, 112, 63, 74, 121, 88, 11, 97, 28, 56, 67, 71, 37,
       106, 93, 71, 81, 21, 66, 65, 107, 116, 71, 32, 39, 85, 48, 122, 108,
       111, 115, 78, 26, 38, 108, 18, 123, 69, 67, 34, 73, 63, 25, 52, 68, 14,
       64, 0, 77, 48, 3, 68, 124, 5, 66, 117, 51, 69, 102, 126, 72, 15, 62,
       11, 88, 21, 8, 119, 68, 58, 52, 117, 122, 102, 118, 51, 34, 31, 60, 63,
       16, 43, 55, 115, 104, 119, 115, 117, 60, 67, 40, 13, 24, 53, 79, 3,
       118, 33, 16, 89, 99, 125, 2, 4, 24, 19, 29, 1, 87, 36, 41, 92, 45, 31,
       79, 63, 13, 63, 93, 74, 15, 109, 65, 79, 32, 91, 25, 89, 67, 112, 55,
       2, 48, 81, 52, 105, 67, 78, 20, 68, 26, 110, 80, 68, 81, 27, 67, 27,
       108, 69, 78, 75, 109, 17, 29, 117, 94, 80, 103, 44, 115, 23, 40, 77,
       40, 114, 118, 24, 27, 99, 127, 24, 113, 12, 17, 113, 30, 16, 93, 11,
       33, 49, 12, 55, 106, 120, 53, 69, 101, 90, 16, 25, 51, 80, 87, 102, 2,
       12, 25, 72, 87, 45, 116, 105, 123, 46, 14, 90, 64, 81, 97, 43, 64, 127,
       87, 106, 24, 102, 9, 61, 13, 3, 4, 97, 70, 78, 65, 115, 72, 61, 18, 24,
       23, 14, 26, 22, 107, 20, 126, 36, 118, 86, 12, 74, 7, 17, 121, 87, 59,
       9, 97, 12, 41, 50, 59, 54, 65, 45, 55, 26, 76, 47, 1, 81, 89, 5, 108,
       25, 23, 52, 58, 46, 94, 47, 51, 117, 24, 77, 21, 12, 65, 101, 1, 41,
       114, 10, 102, 107, 90, 112, 110, 116, 80, 120, 51, 72, 76, 24, 64, 74,
       125, 43, 103, 97, 33, 35, 116, 14, 95, 95, 99, 20, 104, 119, 51, 17,
       114, 42, 112, 68, 88, 47, 98, 55, 97, 23, 51, 26, 92, 23, 9, 102, 43,
       38, 60, 12, 1, 113, 45, 126, 81, 115, 79, 6, 29, 34, 120, 123, 85, 38,
       43, 27, 84, 51, 72, 23, 68, 9, 49, 65, 127, 63, 82, 27, 89, 15, 97, 50,
       125, 73, 2, 14, 78, 13, 94, 30, 32, 56, 51, 64, 6, 97, 25, 82, 48, 1,
       12, 33, 32, 35, 115, 43, 70, 69, 65, 53, 123, 66, 72, 108, 127, 12, 81,
       56, 103, 82, 9, 70, 76, 85, 97, 122, 5, 49, 119, 120, 20, 49, 60, 124,
       21, 109, 63, 69, 78, 76, 7, 54, 120, 63, 53, 36, 67, 51, 76, 39, 46,
       67, 36, 61, 83, 34, 71, 118, 36, 84, 91, 95, 37, 3, 1, 98, 31, 74, 5,
       81, 20, 52, 96, 87, 49, 6, 114, 40, 95, 50, 6, 74, 126, 92, 120, 40, 9,
       102, 115, 28, 54, 92, 61, 32, 124, 96, 31, 5, 66, 12, 119, 103, 92,
       116, 59, 18, 125, 122, 104, 31, 77, 90, 14, 6, 79, 53, 58, 15, 26, 110,
       6, 45, 67, 19, 15, 46, 56, 17, 85, 53, 58, 76, 33, 81, 74, 87, 53, 46,
       99, 95, 67, 104, 127, 17, 121, 37, 93, 16, 30, 61, 14, 64, 114, 39,
       100, 64, 79, 108, 45, 35, 34, 78, 87, 92, 72, 89, 75, 24, 81, 35, 96,
       30, 24, 121, 31, 64, 125, 83, 117, 25, 112, 87, 5, 80, 7, 1, 34, 33,
       54, 3, 79, 4, 13, 28, 69, 35, 9, 96, 11, 116, 86, 20, 70, 30, 80, 125,
       47, 61, 61, 45, 26, 43, 43, 63, 95, 17, 107, 111, 9, 102, 15, 57, 103,
       105, 79, 107, 98, 98, 27, 56, 54, 95, 33, 49, 103, 19, 47, 19, 83, 107,
       126, 76, 41, 37, 70, 97, 95, 105, 117, 23, 54, 83, 47, 74, 12, 59, 112,
       41, 10, 69, 10, 55, 72, 72, 62, 104, 87, 59, 38, 105, 99, 1, 9, 39, 27,
       116, 84, 77, 10, 88, 38, 63, 92, 97, 88, 41, 36, 112, 18, 28, 45, 84,
       92, 41, 46, 116, 15, 41, 90, 56, 72, 76, 117, 115, 120, 87, 116, 35,
       56, 67, 102, 127, 39, 58, 40, 28, 51, 123, 119, 93, 114, 66, 31, 10,
       46, 106, 46, 3, 46, 86, 50, 74, 49, 101, 24, 94, 72, 47, 102, 49, 69,
       19, 107, 75, 72, 22, 22, 11, 97, 58, 112, 109, 36, 103, 2, 28, 66, 7,
       69, 20, 72, 37, 123, 2, 83, 107, 102, 54, 8, 74, 69, 39, 100, 69, 10,
       42, 10, 35, 94, 13, 115, 40, 10, 3, 81, 83, 18, 12, 95, 104, 83, 54,
       31, 91, 28, 62, 97, 116, 66, 43, 97, 58, 50, 44, 43, 103, 123, 42, 86,
       17, 63, 62, 68, 103, 92, 9, 90, 79, 117, 5, 52, 96, 105, 126, 85, 44,
       109, 0, 103, 48, 106, 11, 113, 59, 122, 69, 81, 3, 67, 46, 90, 1, 102,
       14, 53, 118, 53, 117, 18, 31, 94, 20, 126, 81, 48, 87, 21, 41, 26, 49,
       54, 67, 37, 35, 124, 113, 7, 60, 39, 93, 14, 38, 82, 19, 99, 117, 22,
       116, 7, 96, 58, 2, 74, 61, 116, 102, 4, 40, 13, 25, 23, 45, 27, 75, 30,
       76, 91, 60, 76, 65, 28, 56, 23, 114, 35, 51, 22, 116, 96, 119, 39, 80,
       70, 120, 104, 70, 61, 109, 33, 62, 113, 51, 117, 122, 43, 84, 70, 98,
       122, 11, 61, 110, 28, 51, 6, 27, 121, 17, 102, 102, 49, 124, 67, 101,
       66, 99, 35, 100, 126, 7, 84, 118, 30, 114, 1, 111, 60, 115, 47, 57,
       101, 31, 91, 53, 77, 111, 20, 53, 20, 98, 41, 18, 33, 116, 111, 103,
       66, 16, 81, 94, 127, 79, 34, 66, 68, 6, 19, 73, 98, 22, 0, 26, 105,
       117, 108, 19, 105, 16, 10, 45, 34, 78, 91, 67, 12, 113, 61, 88, 59, 10,
       122, 95, 75, 69, 109, 64, 38, 2, 101, 24, 53, 24, 117, 87, 11, 100,
       105, 56, 26, 4, 69, 52, 67, 63, 20, 121, 106, 123, 39, 40, 39, 51, 9,
       71, 39, 127, 59, 85, 91, 8, 46, 9, 87, 17, 13, 85, 50, 86, 59, 95, 123,
       100, 106, 15, 83, 56, 1, 110, 48, 91, 90, 60, 30, 37, 72, 14, 58, 98,
       1, 109, 126, 108, 102, 92, 26, 115, 78, 19, 37, 80, 48, 119, 69, 95,
       38, 122, 43, 96, 50, 71, 85, 11, 32, 24, 25, 48, 93, 14, 42, 39, 120,
       35, 72, 60, 92, 81, 42, 57, 105, 48, 11, 13, 18, 79, 12, 16, 86, 80,
       90, 22, 23, 24, 51, 4, 107, 59, 75, 90, 11, 12, 29, 4, 20, 126, 15, 55,
       52, 98, 9, 43, 117, 105, 54, 118, 65, 17, 82, 26, 98, 18, 105, 88, 49,
       61, 42, 117, 52, 79, 1, 93, 51, 78, 89, 40, 125, 100, 101, 31, 84, 126,
       77, 67, 2, 33, 42, 24, 43, 39, 83, 56, 13, 71, 48, 26, 65, 42, 100, 37,
       105, 13, 78, 91, 20, 32, 98, 68, 115, 38, 70, 29, 45, 78, 64, 65, 18,
       73, 91, 25, 126, 119, 66, 127, 91, 90, 106, 119, 25, 72, 120, 3, 80,
       84, 25, 99, 10, 17, 31, 61, 73, 53, 89, 42, 42, 11, 118, 111, 46, 34,
       59, 113, 15, 57, 124, 93, 17, 30, 115, 72, 69, 69, 71, 8, 71, 117, 33,
       21, 116, 95, 126, 114, 104, 42, 76, 18, 15, 119, 105, 0, 36, 87, 114,
       46, 30, 97, 73, 46, 106, 21, 23, 76, 70, 103, 9, 58, 4, 51, 23, 100,
       126, 119, 120, 127, 84, 17, 39, 96, 85, 108, 94, 116, 48, 78, 75, 81,
       102, 97, 2, 20, 25, 52, 59, 4, 18, 67, 49, 15, 72, 51, 22, 43, 66, 16,
       33, 31, 72, 119, 42, 6, 82, 100, 4, 92, 85, 100, 18, 51, 122, 63, 76,
       13, 60, 44, 52, 114, 79, 116, 88, 72, 97, 52, 96, 36, 62, 113, 127, 59,
       107, 115, 109, 88, 52, 105, 55, 15, 72, 14, 115, 120, 67, 42, 67, 66,
       55, 53, 115, 3, 41, 116, 6, 37, 92, 78, 115, 55, 93, 48, 76, 41, 96,
       101, 39, 112, 75, 112, 8, 31, 15, 108, 57, 31, 64, 111, 50, 124, 6, 60,
       88, 13, 67, 116, 30, 69, 39, 84, 50, 120, 30, 112, 8, 127, 116, 93,
       123, 111, 85, 47, 110, 69, 53, 72, 103, 21, 28, 83, 95, 53, 72, 15,
       115, 9, 12, 66, 101, 16, 15, 112, 68, 73, 121, 58, 0, 37, 31, 93, 38,
       3, 41, 22, 8, 56, 114, 57, 104, 67, 50, 18, 45, 88, 74, 29, 5, 39, 3,
       58, 115, 40, 39, 41, 63, 18, 119, 99, 125, 99, 60, 112, 26, 25, 37,
       109, 118, 88, 114, 7, 25, 40, 107, 109, 45, 115, 60, 2, 22, 81, 112,
       89, 127, 71, 25, 68, 80, 30, 24, 121, 112, 124, 6, 83, 13, 39, 92, 104,
       40, 123, 115, 35, 111, 53, 91, 112, 17, 42, 89, 122, 120, 99, 56, 53,
       10, 21, 28, 110, 39, 15, 90, 88, 25, 34, 23, 92, 30, 64, 85, 37, 101,
       34, 47, 102, 84, 67, 113, 14, 75, 66, 29, 125, 38, 114, 118, 23, 85,
       28, 35, 16, 81, 85, 11, 59, 125, 9, 56, 117, 67, 9, 67, 116, 5, 0, 76,
       75, 36, 68, 32, 54, 102, 72, 11, 21, 36, 126, 96, 24, 31, 22, 35, 93,
       70, 3, 23, 101, 114, 19, 126, 114, 4, 79, 59, 117, 96, 74, 49, 0, 118,
       114, 63, 7, 23, 8, 71, 99, 82, 116, 46, 41, 84, 61, 100, 4, 66, 37, 64,
       105, 108, 81, 87, 125, 66, 95, 121, 68, 22, 76, 99, 98, 21, 14, 77, 55,
       30, 85, 56, 70, 98, 32, 100, 91, 101, 92, 30, 33, 62, 69, 28, 109, 74,
       77, 63, 33, 4, 25, 76, 124, 91, 6, 73, 57, 111, 112, 23, 41, 19, 77, 2,
       77, 63, 103, 55, 64, 56, 92, 33, 109, 102, 3, 9, 14, 116, 22, 72, 81,
       69, 74, 101, 92, 30, 79, 18, 6, 39, 54, 5, 89, 40, 104, 79, 94, 67, 99,
       33, 97, 75, 63, 11, 83, 105, 65, 21, 48, 32, 31, 20, 63, 88, 84, 106,
       76, 100, 58, 7, 40, 52, 59, 46, 89, 27, 90, 124, 122, 5, 16, 62, 96,
       97, 76, 126, 17, 18, 95, 58, 66, 95, 126, 5, 0, 30, 52, 113, 67, 18,
       11, 50, 71, 38, 60, 54, 119, 9, 124, 4, 87, 127, 91, 97, 124, 93, 78,
       29, 37, 32, 15, 70, 109, 30, 53, 59, 11, 119, 29, 46, 39, 43, 121, 125,
       118, 78, 27, 5, 20, 51, 74, 83, 127, 7, 94, 43, 72, 88, 116, 110, 113,
       75, 118, 113, 22, 59, 110, 50, 119, 107, 27, 48, 48, 100, 6, 27, 53,
       44, 31, 23, 101, 70, 102, 20, 61, 26, 51, 27, 76, 59, 97, 39, 60, 57,
       62, 127, 80, 86, 23, 110, 62, 26, 69, 49, 53, 9, 6, 88, 35, 46, 121,
       35, 79, 2, 66, 23, 94, 33, 65, 50, 72, 118, 83, 91, 27, 34, 13, 46, 7,
       19, 93, 119, 99, 46, 17, 98, 30, 92, 107, 116, 15, 2, 127, 41, 107, 49,
       57, 10, 109, 112, 48, 41, 32, 98, 112, 66, 85, 7, 38, 50, 77, 30, 62,
       5, 24, 19, 65, 76, 16, 4, 26, 39, 52, 54, 61, 69, 88, 17, 66, 90, 70,
       33, 40, 92, 57, 85, 48, 18, 112, 26, 106, 35, 68, 91, 57, 51, 17, 49,
       66, 110, 45, 28, 13, 37, 47, 44, 78, 27, 17, 5, 108, 3, 95, 80, 61, 72,
       1, 103, 97, 124, 95, 38, 84, 85, 8, 117, 109, 27, 71, 88, 45, 85, 15,
       122, 99, 111, 47, 30, 100, 80, 33, 11, 102, 54, 15, 50, 63, 7, 62, 49,
       119, 42, 36, 63, 90, 35, 28, 20, 118, 51, 25, 60, 98, 21, 44, 85, 91,
       30, 66, 11, 95, 43, 116, 54, 102, 19, 61, 74, 32, 89, 109, 70, 39, 89,
       117, 2, 115, 50, 15, 46, 116, 8, 116, 51, 34, 6, 48, 63, 108, 74, 38,
       60, 92, 41, 113, 32, 9, 3, 4, 44, 41, 114, 47, 72, 38, 33, 104, 85,
       113, 23, 82, 60, 49, 78, 43, 122, 114, 46, 3, 73, 90, 120, 27, 98, 9,
       80, 6, 79, 69, 52, 78, 53, 8, 35, 8, 106, 59, 112, 57, 48, 123, 116,
       49, 4, 102, 17, 87, 64, 34, 39, 63, 46, 60, 125, 2, 19, 77, 24, 34, 29,
       33, 87, 28, 30, 66, 0, 118, 69, 125, 50, 0, 30, 70, 63, 108, 83, 97,
       70, 10, 79, 105, 71, 113, 106, 88, 124, 101, 42, 33, 44, 13, 113, 2,
       40, 103, 91, 26, 89, 50, 87, 20, 123, 24, 105, 20, 20, 42, 79, 88, 62,
       103, 72, 37, 47, 53, 36, 46, 95, 85, 68, 63, 30, 82, 31, 46, 41, 90,
       22, 117, 65, 94, 16, 112, 8, 126, 8, 104, 13, 113, 90, 39, 14, 108, 57,
       65, 98, 86, 61, 5, 20, 79, 110, 52, 111, 61, 6, 44, 32, 50, 64, 94,
       101, 88, 50, 32, 91, 81, 32, 47, 91, 87, 41, 23, 42, 109, 97, 26, 107,
       72, 106, 16, 72, 125, 53, 82, 90, 16, 79, 94, 106, 34, 102, 20, 16, 25,
       48, 79, 85, 37, 29, 83, 23, 124, 1, 60, 74, 88, 120, 101, 124, 118, 17,
       34, 88, 34, 53, 32, 80, 85, 50, 49, 119, 86, 126, 17, 6, 20, 91, 127,
       15, 111, 5, 24, 36, 45, 93, 68, 127, 102, 15, 51, 42, 115, 3, 106, 69,
       109, 61, 21, 47, 8, 39, 56, 102, 111, 107, 83, 36, 28, 50, 92, 79, 52,
       97, 18, 125, 73, 49, 86>>)
    @@
    (12 :> <<
       60, 34, 84, 67, 85, 44, 18, 48, 1, 127, 47, 61, 35, 82, 103, 58, 88,
       110, 76, 29, 71, 0, 84, 79, 18, 125, 56, 47, 20, 43, 115, 26, 7, 73,
       104, 25, 9, 65, 87, 104, 43, 87, 51, 102, 107, 11, 2, 117, 7, 104, 117,
       84, 65, 28, 11, 126, 126, 54, 121, 56, 14, 84, 54, 124, 17, 69, 40,
       112, 79, 71, 20, 124, 89, 113, 6, 71, 21, 64, 104, 10, 51, 77, 53, 85,
       76, 60, 61, 77, 49, 69, 3, 82, 92, 10, 123, 24, 124, 100, 84, 33, 45,
       120, 46, 110, 88, 49, 86, 39, 14, 32, 30, 42, 46, 47, 65, 73, 103, 97,
       64, 22, 3, 48, 105, 109, 55, 4, 66, 3, 28, 86, 54, 5, 49, 26, 98, 77,
       13, 96, 70, 28, 22, 9, 89, 35, 4, 55, 35, 63, 44, 77, 81, 92, 6, 65,
       58, 47, 26, 43, 36, 58, 60, 89, 122, 109, 61, 30, 122, 126, 21, 59,
       118, 70, 46, 23, 24, 98, 95, 28, 116, 77, 0, 121, 34, 117, 98, 102, 43,
       22, 30, 101, 1, 64, 5, 31, 79, 14, 125, 46, 127, 69, 64, 19, 3, 118,
       41, 112, 100, 85, 106, 35, 81, 15, 29, 100, 67, 64, 61, 62, 80, 45, 33,
       87, 121, 56, 114, 94, 20, 57, 37, 78, 111, 5, 35, 42, 120, 110, 65, 81,
       89, 56, 90, 101, 27, 93, 36, 66, 32, 3, 87, 0, 88, 3, 16, 71, 113, 34,
       53, 17, 30, 25, 55, 60, 125, 7, 71, 72, 79, 92, 117, 119, 123, 33, 97,
       5, 53, 55, 75, 11, 115, 51, 101, 25, 74, 71, 44, 125, 47, 81, 94, 49,
       72, 20, 2, 88, 90, 19, 115, 3, 102, 4, 114, 9, 116, 53, 68, 25, 101,
       118, 48, 101, 12, 90, 45, 24, 39, 34, 119, 101, 88, 87, 69, 62, 79, 78,
       15, 27, 68, 76, 89, 86, 50, 74, 31, 9, 52, 45, 41, 10, 87, 42, 18, 87,
       11, 92, 39, 39, 89, 23, 97, 86, 84, 81, 119, 55, 46, 22, 3, 26, 62, 79,
       56, 62, 22, 7, 85, 76, 43, 58, 30, 113, 41, 12, 120, 28, 0, 123, 46,
       46, 35, 108, 25, 88, 55, 37, 28, 66, 117, 18, 64, 115, 89, 42, 20, 64,
       59, 49, 77, 64, 107, 90, 31, 58, 58, 100, 109, 6, 106, 98, 29, 52, 68,
       89, 97, 101, 50, 66, 86, 56, 84, 6, 124, 13, 70, 73, 87, 39, 44, 97,
       93, 2, 41, 99, 63, 114, 46, 80, 39, 21, 17, 61, 28, 102, 69, 17, 32,
       63, 5, 54, 102, 46, 36, 52, 119, 80, 76, 36, 49, 104, 111, 101, 114,
       77, 41, 18, 16, 33, 82, 4, 107, 84, 77, 101, 100, 48, 52, 54, 79, 84,
       33, 43, 52, 98, 48, 63, 49, 120, 51, 104, 103, 23, 21, 100, 26, 106,
       32, 14, 124, 34, 66, 113, 6, 111, 106, 83, 111, 94, 105, 91, 45, 125,
       94, 117, 39, 98, 17, 109, 110, 39, 106, 111, 27, 95, 112, 110, 3, 71,
       39, 5, 1, 103, 21, 25, 20, 25, 91, 103, 37, 118, 24, 125, 23, 99, 39,
       69, 110, 2, 77, 116, 13, 46, 87, 63, 68, 25, 57, 12, 67, 0, 83, 16,
       102, 50, 64, 62, 81, 37, 59, 45, 81, 107, 49, 109, 53, 114, 66, 3, 91,
       108, 35, 2, 118, 19, 62, 96, 109, 46, 88, 13, 122, 107, 87, 101, 54,
       70, 51, 123, 77, 47, 96, 9, 107, 117, 16, 44, 7, 29, 13, 54, 10, 103,
       7, 107, 1, 119, 31, 3, 14, 87, 87, 72, 78, 118, 123, 92, 122, 83, 95,
       108, 121, 125, 3, 75, 29, 75, 118, 102, 60, 80, 26, 58, 96, 43, 54, 83,
       69, 106, 40, 102, 30, 50, 11, 83, 77, 43, 121, 7, 126, 101, 97, 87,
       119, 126, 46, 18, 38, 15, 118, 62, 76, 17, 85, 35, 1, 25, 29, 15, 61,
       55, 93, 43, 105, 51, 96, 40, 43, 76, 48, 97, 110, 112, 126, 103, 62,
       43, 24, 113, 79, 81, 68, 79, 46, 8, 29, 43, 49, 34, 78, 72, 16, 107,
       69, 85, 121, 56, 95, 35, 32, 43, 53, 126, 13, 15, 94, 75, 80, 63, 22,
       46, 70, 19, 76, 79, 73, 35, 48, 42, 39, 47, 45, 116, 127, 117, 42, 120,
       64, 76, 58, 9, 22, 79, 51, 113, 26, 120, 41, 79, 46, 78, 44, 109, 120,
       18, 37, 43, 42, 126, 84, 82, 50, 5, 66, 42, 82, 68, 9, 106, 85, 67, 12,
       110, 32, 20, 103, 62, 126, 11, 86, 39, 21, 101, 56, 29, 36, 8, 107, 88,
       29, 24, 25, 35, 81, 15, 81, 27, 75, 23, 61, 95, 122, 39, 58, 16, 119,
       61, 50, 56, 59, 49, 46, 34, 91, 115, 96, 25, 30, 75, 67, 100, 92, 62,
       64, 84, 84, 91, 78, 108, 91, 43, 45, 51, 39, 17, 3, 9, 113, 85, 101,
       37, 49, 86, 123, 37, 115, 61, 19, 88, 107, 66, 53, 73, 40, 22, 33, 54,
       52, 106, 6, 18, 6, 57, 14, 67, 39, 31, 20, 26, 15, 99, 106, 70, 48, 65,
       62, 39, 76, 11, 119, 24, 18, 107, 29, 48, 110, 67, 116, 32, 119, 122,
       67, 105, 46, 100, 24, 16, 116, 26, 97, 108, 70, 13, 101, 30, 33, 4, 68,
       69, 116, 56, 13, 62, 79, 66, 23, 123, 107, 72, 107, 108, 82, 7, 55, 38,
       2, 126, 63, 49, 45, 107, 51, 10, 9, 69, 117, 116, 66, 58, 71, 100, 107,
       124, 114, 96, 70, 51, 69, 1, 108, 64, 47, 53, 115, 18, 3, 42, 101, 9,
       67, 86, 79, 35, 126, 39, 28, 38, 52, 35, 102, 65, 95, 50, 67, 10, 99,
       86, 86, 5, 111, 36, 83, 123, 46, 88, 36, 44, 10, 83, 15, 105, 5, 14,
       124, 103, 18, 8, 77, 19, 17, 100, 123, 64, 68, 21, 22, 70, 105, 114,
       110, 45, 125, 126, 28, 106, 51, 2, 84, 18, 36, 58, 72, 58, 89, 41, 96,
       21, 105, 32, 96, 1, 36, 55, 96, 97, 55, 26, 21, 122, 2, 119, 79, 45,
       45, 37, 12, 78, 62, 47, 53, 45, 41, 5, 72, 38, 68, 111, 67, 79, 126,
       71, 115, 1, 38, 79, 111, 71, 40, 17, 119, 107, 7, 117, 40, 30, 119, 69,
       84, 100, 90, 114, 26, 113, 15, 11, 122, 122, 8, 78, 22, 95, 55, 127,
       104, 126, 86, 43, 127, 34, 99, 5, 55, 28, 116, 47, 40, 43, 6, 80, 122,
       126, 112, 40, 84, 88, 61, 115, 26, 110, 28, 79, 8, 105, 12, 85, 61, 63,
       114, 103, 119, 20, 65, 25, 86, 115, 59, 68, 99, 49, 90, 43, 126, 24,
       108, 117, 86, 17, 75, 87, 21, 67, 60, 91, 57, 126, 19, 14, 25, 83, 52,
       27, 22, 32, 79, 9, 41, 60, 126, 118, 87, 57, 66, 11, 55, 83, 50, 116,
       25, 21, 123, 108, 116, 73, 83, 22, 83, 73, 18, 10, 69, 89, 21, 92, 41,
       80, 75, 84, 21, 5, 29, 60, 93, 109, 62, 94, 113, 17, 20, 116, 11, 109,
       120, 58, 77, 127, 88, 71, 71, 29, 19, 118, 125, 124, 63, 101, 116, 124,
       18, 114, 35, 66, 70, 76, 31, 67, 110, 80, 33, 32, 10, 50, 20, 70, 34,
       117, 121, 69, 112, 73, 85, 3, 54, 76, 5, 57, 106, 66, 16, 123, 25, 80,
       55, 98, 110, 71, 23, 86, 7, 86, 116, 2, 1, 15, 93, 68, 18, 51, 38, 71,
       26, 11, 56, 83, 117, 90, 107, 107, 68, 104, 11, 65, 22, 101, 37, 8,
       101, 20, 117, 51, 3, 107, 42, 125, 122, 1, 19, 13, 10, 1, 34, 97, 113,
       47, 33, 38, 92, 45, 15, 117, 84, 74, 21, 56, 76, 102, 95, 12, 112, 89,
       55, 105, 126, 100, 52, 47, 121, 35, 116, 46, 127, 13, 13, 41, 35, 29,
       89, 41, 113, 120, 32, 99, 98, 61, 61, 43, 0, 15, 10, 51, 0, 20, 29, 56,
       119, 63, 86, 68, 110, 109, 117, 103, 50, 113, 89, 97, 83, 49, 88, 8,
       11, 113, 113, 123, 20, 77, 57, 21, 88, 126, 95, 108, 105, 57, 39, 70,
       38, 123, 93, 30, 6, 0, 111, 25, 40, 63, 50, 71, 40, 96, 91, 125, 22,
       117, 17, 102, 8, 52, 16, 10, 79, 42, 126, 48, 0, 40, 59, 35, 45, 9, 39,
       43, 43, 2, 13, 43, 54, 30, 34, 24, 7, 53, 17, 26, 118, 99, 91, 125,
       125, 79, 104, 1, 94, 109, 29, 37, 13, 6, 125, 101, 87, 83, 92, 90, 18,
       2, 101, 47, 68, 109, 11, 47, 26, 22, 123, 55, 79, 15, 11, 108, 10, 118,
       96, 71, 45, 107, 61, 23, 17, 80, 22, 92, 63, 43, 54, 12, 23, 94, 19,
       39, 56, 96, 14, 117, 7, 3, 60, 7, 6, 65, 93, 30, 98, 40, 90, 1, 121,
       39, 21, 69, 53, 80, 53, 110, 9, 42, 110, 15, 5, 62, 125, 108, 86, 12,
       126, 113, 7, 60, 114, 82, 123, 54, 99, 104, 74, 39, 82, 67, 61, 63,
       109, 54, 74, 31, 70, 60, 51, 16, 80, 25, 75, 0, 120, 59, 98, 124, 42,
       21, 92, 124, 29, 103, 61, 35, 67, 76, 93, 99, 9, 26, 18, 105, 23, 106,
       79, 2, 21, 63, 71, 103, 112, 82, 54, 111, 28, 126, 76, 89, 52, 84, 55,
       20, 22, 116, 87, 114, 44, 115, 126, 70, 63, 40, 87, 22, 118, 56, 125,
       22, 2, 120, 118, 69, 13, 111, 121, 31, 100, 77, 32, 122, 91, 52, 72,
       36, 57, 43, 80, 120, 58, 55, 84, 8, 88, 79, 0, 15, 81, 84, 90, 66, 110,
       15, 68, 64, 69, 4, 18, 97, 25, 68, 114, 117, 7, 3, 115, 107, 15, 55,
       49, 56, 79, 120, 3, 78, 57, 108, 102, 119, 49, 5, 22, 44, 7, 25, 121,
       51, 13, 34, 85, 118, 81, 70, 35, 48, 71, 24, 87, 50, 26, 40, 31, 13,
       118, 20, 26, 92, 62, 77, 58, 112, 99, 124, 109, 24, 97, 20, 80, 14, 69,
       7, 11, 99, 73, 18, 55, 101, 96, 98, 48, 47, 15, 64, 49, 76, 106, 70,
       63, 78, 85, 55, 7, 86, 28, 18, 34, 103, 61, 57, 15, 86, 121, 103, 42,
       36, 0, 26, 30, 88, 64, 53, 78, 78, 104, 16, 11, 4, 124, 51, 109, 3, 65,
       119, 82, 35, 39, 29, 19, 5, 1, 79, 123, 106, 113, 91, 57, 96, 77, 78,
       61, 5, 88, 44, 12, 81, 96, 1, 22, 35, 75, 102, 79, 116, 108, 124, 78,
       62, 22, 17, 104, 62, 47, 127, 72, 76, 102, 4, 125, 120, 13, 106, 58,
       46, 40, 98, 108, 117, 50, 28, 116, 119, 101, 72, 53, 110, 97, 90, 86,
       40, 14, 28, 37, 60, 17, 118, 106, 99, 50, 105, 38, 80, 91, 112, 126,
       125, 18, 8, 88, 96, 29, 8, 101, 24, 95, 18, 98, 110, 74, 53, 15, 39,
       109, 119, 14, 88, 74, 106, 122, 12, 34, 55, 61, 70, 86, 18, 82, 31, 41,
       123, 53, 25, 114, 121, 91, 55, 22, 87, 87, 23, 109, 69, 76, 94, 114,
       31, 33, 39, 37, 115, 110, 58, 32, 63, 16, 34, 18, 111, 112, 110, 105,
       67, 25, 66, 94, 29, 25, 77, 79, 41, 1, 1, 73, 111, 96, 77, 64, 103, 80,
       90, 15, 58, 58, 127, 100, 22, 47, 60, 95, 78, 76, 83, 103, 126, 94, 15,
       39, 69, 104, 17, 104, 64, 54, 92, 91, 51, 53, 62, 73, 47, 41, 46, 59,
       90, 39, 83, 114, 95, 78, 44, 78, 112, 66, 1, 59, 120, 22, 73, 82, 35,
       57, 3, 44, 68, 65, 93, 16, 53, 82, 69, 100, 121, 46, 102, 20, 18, 123,
       86, 79, 94, 40, 100, 11, 64, 73, 55, 28, 17, 115, 38, 91, 75, 35, 65,
       52, 0, 11, 122, 28, 104, 71, 110, 112, 107, 54, 87, 123, 63, 32, 94,
       13, 27, 107, 88, 48, 61, 35, 115, 56, 45, 78, 89, 28, 66, 13, 75, 76,
       106, 84, 41, 71, 10, 20, 57, 110, 15, 55, 61, 69, 4, 113, 65, 17, 60,
       63, 111, 54, 73, 81, 49, 28, 108, 30, 118, 29, 93, 71, 59, 38, 93, 118,
       119, 111, 77, 93, 86, 52, 93, 105, 33, 73, 86, 100, 74, 122, 65, 15,
       122, 97, 96, 115, 88, 51, 49, 43, 80, 4, 117, 114, 90, 26, 10, 1, 33,
       11, 21, 65, 115, 87, 29, 115, 65, 84, 103, 13, 5, 119, 61, 111, 78,
       103, 29, 115, 70, 106, 35, 87, 83, 98, 70, 2, 34, 126, 100, 0, 105, 54,
       46, 72, 24, 65, 1, 43, 88, 65, 114, 40, 5, 84, 102, 3, 122, 44, 99, 83,
       53, 58, 63, 2, 76, 58, 127, 118, 55, 66, 111, 93, 32, 49, 19, 125, 3,
       67, 56, 103, 69, 80, 47, 104, 111, 50, 64, 118, 52, 126, 87, 114, 16,
       116, 105, 46, 70, 43, 79, 114, 83, 105, 65, 75, 16, 71, 77, 1, 47, 71,
       27, 7, 33, 67, 38, 28, 13, 77, 35, 20, 1, 41, 6, 98, 67, 74, 8, 17, 32,
       126, 48, 2, 9, 52, 46, 91, 85, 74, 75, 83, 32, 115, 123, 12, 106, 65,
       28, 32, 92, 76, 67, 59, 83, 80, 65, 102, 9, 64, 79, 54, 46, 71, 72, 21,
       120, 116, 41, 49, 6, 63, 99, 107, 97, 106, 113, 127, 86, 90, 4, 68, 85,
       55, 68, 99, 37, 79, 14, 1, 45, 72, 12, 85, 105, 45, 39, 106, 33, 94,
       91, 113, 6, 37, 114, 84, 29, 71, 90, 43, 70, 38, 53, 11, 51, 107, 82,
       35, 83, 44, 12, 32, 10, 71, 67, 63, 13, 110, 90, 10, 0, 43, 59, 106,
       85, 101, 4, 8, 64, 57, 97, 127, 0, 125, 70, 40, 82, 95, 24, 42, 73, 8,
       110, 114, 96, 16, 60, 127, 20, 57, 126, 109, 43, 60, 102, 115, 48, 95,
       42, 22, 55, 3, 72, 21, 112, 77, 91, 14, 29, 9, 46, 48, 88, 6, 11, 39,
       58, 80, 56, 29, 119, 101, 14, 33, 58, 46, 33, 51, 112, 108, 109, 6, 23,
       103, 37, 12, 91, 124, 25, 71, 74, 96, 32, 65, 93, 85, 39, 87, 118, 18,
       77, 24, 85, 116, 45, 28, 72, 31, 46, 6, 53, 91, 67, 100, 13, 4, 85,
       110, 125, 14, 19, 63, 125, 65, 61, 32, 72, 41, 117, 62, 64, 100, 102,
       32, 108, 29, 66, 125, 106, 33, 30, 13, 100, 119, 9, 118, 84, 27, 118,
       67, 23, 111, 69, 41, 44, 43, 54, 0, 49, 16, 75, 77, 4, 63, 46, 110, 25,
       57, 117, 34, 104, 50, 17, 17, 73, 61, 98, 88, 58, 23, 80, 74, 88, 127,
       22, 89, 121, 40, 39, 82, 13, 14, 123, 13, 69, 103, 123, 90, 37, 79, 61,
       71, 14, 44, 87, 107, 13, 65, 2, 105, 23, 94, 117, 42, 91, 104, 115, 44,
       37, 78, 36, 107, 73, 121, 81, 79, 26, 25, 126, 20, 120, 106, 55, 39,
       14, 18, 95, 74, 113, 53, 100, 94, 120, 23, 121, 65, 74, 122, 112, 22,
       65, 49, 58, 50, 109, 16, 61, 18, 1, 40, 3, 70, 119, 17, 6, 81, 121, 47,
       26, 38, 99, 108, 51, 94, 100, 56, 21, 33, 38, 65, 9, 82, 72, 97, 37,
       84, 13, 0, 38, 20, 12, 127, 38, 69, 73, 65, 98, 14, 99, 100, 63, 105,
       49, 39, 18, 34, 110, 9, 64, 39, 35, 65, 23, 57, 22, 1, 42, 12, 85, 30,
       82, 106, 24, 123, 99, 110, 108, 63, 17, 46, 19, 114, 86, 96, 6, 82, 61,
       89, 110, 120, 102, 67, 77, 32, 76, 93, 15, 119, 126, 28, 123, 49, 98,
       97, 20, 102, 15, 6, 68, 103, 20, 31, 63, 16, 87, 6, 11, 59, 25, 58, 69,
       23, 48, 91, 14, 23, 87, 118, 18, 127, 44, 42, 26, 2, 82, 8, 107, 68,
       22, 45, 123, 99, 47, 52, 103, 32, 122, 20, 98, 126, 19, 97, 81, 87, 3,
       28, 29, 56, 104, 96, 19, 82, 122, 35, 11, 44, 79, 103, 81, 6, 69, 82,
       116, 90, 87, 66, 88, 70, 118, 118, 1, 41, 116, 96, 102, 92, 64, 94, 63,
       8, 68, 88, 104, 48, 127, 16, 11, 116, 33, 33, 44, 59, 14, 39, 21, 14,
       90, 37, 105, 78, 83, 81, 39, 95, 56, 19, 3, 35, 13, 106, 20, 67, 8, 94,
       54, 59, 103, 53, 22, 4, 77, 107, 0, 115, 26, 91, 93, 27, 33, 80, 51,
       87, 115, 36, 67, 48, 110, 113, 122, 33, 107, 78, 71, 6, 22, 2, 74, 5,
       69, 39, 83, 118, 127, 73, 112, 61, 10, 18, 120, 71, 114, 16, 97, 8, 65,
       42, 47, 32, 42, 100, 109, 72, 108, 81, 78, 35, 112, 50, 49, 14, 114,
       36, 27, 127, 54, 85, 37, 43, 75, 80, 30, 116, 47, 103, 89, 67, 61, 19,
       50, 6, 22, 9, 85, 105, 16, 99, 118, 89, 96, 92, 78, 17, 9, 74, 66, 1,
       84, 4, 98, 79, 103, 0, 121, 52, 113, 45, 124, 111, 8, 44, 17, 26, 39,
       87, 36, 19, 11, 125, 42, 118, 113, 126, 13, 79, 38, 23, 32, 25, 21, 91,
       4, 56, 49, 90, 60, 26, 51, 72, 60, 109, 79, 36, 1, 106, 46, 18, 38, 85,
       19, 5, 75, 31, 42, 9, 5, 25, 117, 67, 44, 103, 41, 104, 62, 116, 23,
       31, 35, 119, 28, 54, 32, 85, 38, 92, 24, 34, 65, 35, 92, 55, 32, 43, 32>>)
    @@
    (13 :> <<
       33, 37, 87, 116, 87, 102, 108, 113, 23, 83, 29, 85, 18, 111, 28, 82,
       93, 23, 16, 9, 68, 108, 27, 95, 37, 3, 55, 16, 107, 87, 77, 127, 1,
       127, 35, 106, 18, 10, 111, 101, 103, 113, 103, 33, 105, 57, 95, 55,
       121, 17, 101, 112, 32, 45, 108, 29, 62, 114, 96, 70, 72, 125, 54, 85,
       46, 113, 55, 81, 40, 83, 15, 44, 104, 76, 102, 81, 126, 33, 88, 57, 70,
       78, 95, 126, 17, 56, 86, 93, 56, 68, 22, 37, 25, 22, 66, 45, 32, 47,
       58, 33, 77, 35, 50, 113, 16, 73, 62, 70, 30, 72, 30, 113, 24, 89, 46,
       16, 9, 55, 83, 80, 122, 59, 49, 0, 92, 54, 119, 111, 5, 28, 18, 63,
       103, 89, 107, 56, 81, 32, 20, 93, 52, 94, 111, 32, 113, 97, 102, 44,
       25, 90, 109, 80, 47, 66, 91, 84, 17, 115, 124, 90, 77, 30, 92, 63, 27,
       110, 79, 5, 74, 89, 75, 4, 45, 74, 93, 72, 43, 23, 37, 24, 21, 100, 87,
       71, 14, 115, 28, 21, 8, 54, 82, 76, 71, 103, 69, 88, 4, 124, 56, 105,
       43, 82, 11, 67, 0, 16, 127, 39, 15, 52, 38, 116, 34, 72, 76, 89, 9,
       120, 60, 66, 46, 109, 106, 4, 0, 40, 42, 19, 63, 71, 124, 68, 66, 105,
       60, 28, 85, 26, 37, 102, 4, 48, 64, 91, 116, 20, 94, 18, 33, 54, 87,
       105, 108, 27, 33, 54, 75, 30, 45, 98, 31, 75, 36, 54, 26, 82, 44, 54,
       4, 40, 50, 58, 11, 8, 97, 5, 76, 117, 0, 83, 99, 39, 24, 57, 61, 126,
       70, 49, 42, 7, 37, 67, 55, 121, 17, 18, 110, 6, 14, 47, 105, 20, 27,
       39, 38, 77, 49, 37, 4, 44, 16, 12, 46, 62, 56, 74, 112, 74, 126, 55, 5,
       44, 68, 37, 16, 123, 102, 6, 41, 21, 114, 113, 69, 94, 16, 115, 0, 114,
       31, 116, 111, 87, 19, 11, 61, 119, 47, 9, 44, 33, 102, 105, 27, 6, 91,
       30, 85, 105, 119, 30, 66, 100, 117, 97, 56, 24, 73, 50, 79, 6, 107, 70,
       114, 6, 14, 78, 17, 120, 68, 97, 103, 47, 68, 50, 38, 19, 123, 69, 38,
       33, 11, 47, 6, 119, 3, 21, 93, 1, 13, 67, 91, 34, 110, 11, 127, 42,
       103, 80, 54, 20, 79, 125, 106, 86, 91, 89, 37, 117, 97, 5, 14, 12, 39,
       51, 127, 49, 60, 49, 34, 19, 100, 19, 57, 38, 0, 67, 3, 68, 33, 35, 42,
       28, 119, 127, 31, 122, 108, 121, 109, 47, 53, 20, 127, 107, 97, 102,
       61, 52, 33, 19, 59, 74, 115, 122, 68, 59, 24, 98, 48, 91, 60, 106, 24,
       3, 73, 115, 4, 61, 105, 64, 22, 16, 13, 0, 75, 17, 39, 10, 113, 115,
       63, 73, 66, 92, 106, 7, 27, 90, 95, 116, 83, 88, 54, 3, 122, 68, 2, 99,
       110, 87, 18, 38, 107, 79, 19, 83, 6, 93, 64, 54, 118, 96, 32, 28, 62,
       2, 77, 12, 31, 40, 67, 64, 1, 73, 57, 114, 97, 116, 43, 83, 28, 77, 6,
       67, 89, 127, 54, 30, 117, 65, 94, 1, 12, 47, 117, 18, 119, 59, 104, 45,
       106, 17, 87, 44, 92, 29, 85, 36, 75, 11, 32, 91, 17, 16, 92, 22, 76,
       13, 7, 69, 82, 18, 78, 94, 65, 3, 99, 59, 112, 45, 48, 73, 104, 73, 63,
       103, 73, 65, 52, 8, 119, 109, 56, 67, 121, 35, 43, 48, 86, 15, 116, 26,
       87, 41, 48, 74, 9, 98, 61, 119, 53, 38, 104, 118, 100, 3, 126, 91, 57,
       49, 52, 61, 72, 114, 95, 7, 10, 32, 27, 0, 18, 68, 41, 126, 38, 107,
       123, 67, 26, 55, 119, 71, 37, 1, 26, 80, 124, 112, 11, 95, 14, 83, 16,
       122, 8, 70, 49, 80, 27, 40, 20, 126, 2, 20, 89, 23, 6, 7, 29, 55, 72,
       126, 113, 22, 84, 98, 90, 52, 89, 10, 102, 62, 109, 65, 19, 14, 6, 44,
       79, 6, 66, 104, 66, 99, 100, 95, 22, 11, 90, 99, 54, 39, 53, 38, 31,
       33, 36, 103, 74, 91, 70, 53, 116, 36, 35, 95, 91, 27, 12, 107, 83, 10,
       20, 6, 109, 15, 123, 96, 32, 19, 103, 127, 28, 79, 39, 12, 13, 63, 56,
       76, 13, 5, 90, 114, 73, 69, 53, 17, 90, 61, 29, 61, 42, 107, 46, 15, 0,
       91, 113, 62, 11, 89, 12, 98, 102, 109, 104, 34, 57, 1, 53, 117, 17, 90,
       0, 80, 66, 17, 31, 44, 19, 54, 115, 55, 2, 45, 46, 42, 96, 44, 95, 24,
       13, 18, 94, 20, 72, 21, 80, 54, 120, 7, 102, 122, 76, 55, 98, 15, 62,
       52, 70, 26, 104, 19, 79, 121, 48, 102, 2, 50, 101, 50, 43, 116, 54, 51,
       36, 10, 71, 31, 51, 21, 106, 122, 76, 96, 71, 6, 100, 59, 56, 13, 68,
       109, 96, 65, 92, 57, 95, 18, 114, 99, 71, 5, 71, 92, 24, 3, 30, 124,
       55, 5, 63, 34, 115, 54, 5, 99, 44, 24, 94, 116, 58, 51, 108, 78, 20,
       56, 98, 26, 55, 96, 72, 50, 7, 50, 51, 28, 102, 84, 94, 24, 72, 112,
       54, 26, 4, 4, 89, 2, 57, 67, 92, 87, 78, 50, 51, 117, 111, 64, 16, 110,
       122, 58, 11, 63, 124, 62, 75, 80, 57, 10, 119, 68, 65, 88, 65, 1, 7,
       90, 102, 62, 81, 22, 30, 92, 14, 3, 53, 89, 119, 71, 111, 26, 59, 61,
       4, 53, 106, 5, 25, 35, 93, 102, 63, 67, 123, 19, 18, 19, 101, 105, 92,
       124, 2, 22, 72, 8, 37, 21, 89, 60, 123, 24, 85, 127, 63, 0, 77, 91, 31,
       8, 59, 99, 14, 8, 92, 76, 8, 49, 67, 89, 22, 24, 72, 117, 7, 93, 3, 48,
       79, 26, 92, 127, 113, 57, 86, 102, 127, 42, 18, 57, 80, 76, 81, 98, 22,
       112, 17, 107, 30, 74, 66, 120, 100, 89, 91, 101, 73, 89, 9, 64, 92, 54,
       65, 103, 21, 51, 79, 52, 31, 99, 39, 36, 57, 98, 96, 0, 13, 97, 56, 58,
       30, 91, 85, 103, 104, 23, 33, 2, 92, 98, 59, 122, 27, 71, 35, 77, 68,
       116, 103, 90, 77, 114, 0, 84, 100, 117, 74, 16, 54, 42, 30, 125, 56, 2,
       88, 51, 34, 12, 17, 4, 112, 42, 56, 3, 9, 108, 114, 9, 14, 119, 46, 10,
       79, 97, 85, 98, 115, 126, 22, 95, 72, 62, 112, 73, 59, 73, 91, 0, 59,
       65, 91, 2, 122, 79, 43, 70, 94, 123, 44, 10, 113, 52, 97, 52, 109, 114,
       111, 10, 76, 26, 121, 43, 19, 15, 73, 19, 9, 49, 74, 37, 87, 63, 36,
       95, 103, 85, 53, 104, 25, 63, 24, 13, 73, 68, 49, 38, 5, 9, 39, 57,
       124, 25, 60, 1, 87, 6, 54, 66, 9, 60, 78, 39, 26, 82, 15, 77, 78, 88,
       86, 41, 1, 38, 121, 60, 2, 83, 21, 67, 42, 4, 102, 37, 95, 100, 95,
       103, 55, 0, 116, 54, 17, 87, 122, 54, 6, 47, 19, 21, 96, 46, 98, 114,
       86, 49, 31, 38, 110, 92, 65, 61, 26, 2, 12, 40, 126, 21, 7, 31, 28, 36,
       45, 101, 114, 76, 106, 51, 107, 66, 80, 36, 1, 1, 94, 117, 24, 96, 121,
       33, 124, 117, 8, 70, 93, 93, 30, 17, 13, 53, 111, 50, 56, 104, 37, 40,
       71, 32, 8, 88, 54, 36, 83, 29, 110, 55, 15, 61, 114, 31, 13, 8, 26, 14,
       42, 27, 21, 86, 11, 124, 83, 44, 51, 31, 24, 75, 65, 40, 15, 10, 87,
       41, 123, 52, 59, 88, 53, 49, 51, 9, 46, 72, 52, 65, 22, 33, 37, 100,
       88, 48, 61, 69, 8, 68, 18, 116, 107, 8, 45, 83, 106, 91, 78, 1, 80, 42,
       45, 53, 74, 113, 53, 95, 66, 49, 120, 20, 13, 83, 27, 122, 115, 92,
       118, 50, 104, 80, 110, 64, 13, 77, 91, 26, 15, 85, 108, 80, 50, 52, 62,
       86, 66, 110, 26, 51, 72, 9, 110, 34, 57, 89, 56, 0, 46, 105, 24, 105,
       36, 63, 107, 35, 123, 23, 47, 87, 36, 92, 43, 111, 110, 98, 33, 105,
       23, 5, 40, 119, 11, 97, 18, 123, 29, 96, 83, 110, 118, 114, 33, 116,
       37, 110, 75, 46, 3, 61, 11, 22, 73, 48, 59, 54, 44, 125, 53, 12, 2,
       121, 33, 123, 22, 125, 30, 101, 8, 108, 104, 1, 2, 13, 53, 30, 22, 127,
       26, 58, 97, 94, 123, 23, 123, 90, 42, 13, 69, 101, 55, 67, 10, 15, 54,
       74, 78, 114, 51, 106, 100, 6, 57, 119, 37, 8, 114, 80, 72, 39, 32, 26,
       115, 14, 61, 125, 77, 9, 59, 4, 109, 37, 93, 81, 56, 21, 46, 63, 98,
       107, 107, 25, 77, 33, 111, 59, 67, 117, 53, 93, 40, 109, 34, 48, 19,
       41, 118, 80, 70, 4, 10, 62, 26, 105, 54, 104, 103, 68, 109, 105, 97,
       106, 37, 44, 54, 78, 121, 26, 49, 72, 83, 113, 6, 97, 61, 52, 64, 113,
       116, 72, 122, 1, 96, 90, 42, 35, 111, 119, 117, 39, 9, 79, 54, 10, 70,
       6, 39, 94, 30, 85, 100, 87, 26, 9, 70, 56, 2, 16, 59, 62, 123, 26, 0,
       1, 13, 123, 115, 23, 117, 4, 64, 16, 37, 109, 38, 4, 93, 103, 74, 87,
       57, 122, 88, 56, 12, 37, 49, 29, 112, 4, 116, 1, 62, 35, 100, 81, 113,
       61, 66, 23, 18, 23, 13, 3, 85, 118, 43, 69, 67, 3, 5, 34, 121, 20, 35,
       40, 81, 81, 79, 49, 45, 29, 26, 36, 71, 28, 41, 41, 9, 48, 22, 111, 5,
       16, 114, 68, 25, 122, 117, 85, 79, 59, 122, 121, 60, 86, 32, 5, 10, 7,
       79, 86, 88, 9, 86, 34, 116, 60, 12, 60, 82, 115, 90, 78, 120, 44, 32,
       60, 119, 75, 3, 99, 75, 16, 41, 114, 66, 37, 22, 37, 49, 32, 44, 53,
       59, 68, 51, 21, 27, 8, 21, 99, 59, 30, 126, 66, 108, 54, 19, 107, 81,
       78, 18, 5, 41, 18, 127, 82, 43, 102, 13, 88, 71, 114, 75, 90, 65, 57,
       121, 43, 65, 72, 46, 0, 26, 1, 74, 66, 95, 53, 64, 38, 49, 19, 32, 65,
       108, 4, 126, 6, 74, 52, 90, 28, 41, 107, 20, 14, 7, 14, 78, 92, 117,
       60, 88, 22, 86, 16, 109, 111, 52, 20, 54, 73, 33, 90, 106, 27, 88, 95,
       67, 65, 99, 83, 116, 0, 5, 52, 28, 87, 59, 127, 91, 92, 30, 96, 56, 35,
       84, 67, 37, 26, 85, 62, 7, 104, 52, 123, 81, 91, 110, 34, 65, 14, 85,
       45, 84, 41, 82, 57, 57, 30, 40, 107, 16, 42, 113, 89, 99, 29, 83, 33,
       96, 24, 40, 49, 22, 43, 68, 43, 59, 112, 83, 4, 111, 59, 50, 102, 47,
       118, 90, 109, 113, 50, 72, 15, 76, 121, 114, 115, 117, 62, 5, 15, 124,
       126, 12, 67, 70, 89, 63, 111, 125, 12, 29, 109, 5, 11, 122, 80, 58, 11,
       58, 127, 54, 69, 35, 15, 3, 109, 71, 127, 27, 43, 63, 80, 127, 5, 125,
       69, 39, 89, 42, 121, 15, 103, 77, 34, 22, 75, 16, 106, 117, 69, 71,
       104, 113, 51, 27, 16, 22, 113, 73, 93, 88, 114, 22, 32, 64, 74, 71, 66,
       63, 25, 40, 33, 57, 79, 14, 45, 12, 46, 7, 30, 106, 42, 31, 3, 86, 74,
       14, 43, 113, 26, 3, 67, 103, 106, 68, 82, 116, 115, 113, 101, 1, 36, 6,
       14, 31, 22, 5, 104, 110, 56, 18, 42, 86, 8, 121, 68, 89, 11, 127, 92,
       82, 102, 49, 43, 124, 73, 27, 108, 70, 43, 53, 20, 69, 6, 38, 45, 122,
       127, 126, 109, 89, 28, 63, 127, 121, 0, 121, 74, 6, 16, 113, 57, 13,
       83, 11, 9, 32, 26, 47, 86, 61, 60, 122, 38, 19, 43, 82, 112, 64, 102,
       16, 97, 127, 85, 117, 82, 44, 68, 111, 12, 57, 126, 86, 13, 118, 58,
       81, 14, 46, 68, 6, 116, 59, 123, 74, 62, 34, 95, 73, 84, 2, 31, 32, 6,
       61, 93, 61, 59, 90, 38, 29, 100, 35, 65, 93, 5, 36, 58, 19, 40, 79,
       107, 44, 127, 75, 116, 124, 29, 124, 113, 101, 127, 124, 110, 101, 2,
       46, 65, 119, 25, 16, 86, 26, 89, 64, 14, 15, 35, 77, 117, 69, 100, 26,
       122, 95, 122, 10, 69, 62, 107, 35, 75, 120, 38, 18, 53, 48, 76, 91, 48,
       38, 106, 105, 17, 14, 42, 9, 33, 1, 20, 71, 127, 61, 77, 68, 15, 60,
       26, 112, 65, 27, 49, 18, 46, 31, 92, 106, 21, 103, 123, 14, 61, 0, 49,
       126, 46, 123, 63, 35, 31, 68, 30, 6, 33, 65, 103, 22, 5, 87, 28, 19,
       49, 72, 86, 42, 106, 61, 121, 121, 58, 66, 95, 124, 122, 92, 67, 29,
       57, 32, 71, 104, 124, 99, 18, 18, 103, 103, 106, 38, 36, 72, 68, 114,
       10, 117, 8, 22, 64, 18, 78, 34, 37, 77, 33, 123, 119, 83, 39, 97, 66,
       105, 94, 60, 65, 48, 19, 102, 6, 79, 99, 113, 46, 127, 11, 59, 71, 44,
       52, 16, 36, 74, 96, 40, 48, 40, 65, 64, 48, 93, 127, 87, 12, 58, 36,
       83, 99, 80, 77, 116, 56, 87, 72, 108, 56, 30, 127, 108, 107, 0, 76,
       104, 79, 1, 22, 77, 8, 35, 89, 20, 125, 95, 19, 17, 21, 87, 98, 10, 6,
       26, 6, 50, 121, 73, 57, 84, 42, 46, 48, 110, 112, 3, 122, 24, 50, 50,
       105, 78, 21, 83, 111, 113, 49, 44, 111, 82, 14, 88, 81, 20, 10, 47, 87,
       56, 54, 76, 50, 67, 75, 17, 28, 26, 55, 42, 111, 11, 14, 98, 108, 114,
       38, 93, 4, 28, 64, 75, 78, 4, 9, 27, 78, 32, 2, 76, 23, 74, 48, 69, 85,
       20, 117, 64, 108, 95, 49, 111, 61, 47, 42, 57, 125, 111, 118, 5, 88,
       77, 56, 13, 102, 102, 74, 86, 15, 9, 86, 5, 110, 120, 111, 39, 126, 74,
       96, 74, 101, 48, 109, 12, 6, 92, 83, 42, 50, 54, 75, 102, 13, 120, 112,
       36, 58, 42, 65, 99, 64, 57, 52, 114, 75, 47, 66, 6, 99, 36, 30, 115,
       103, 74, 41, 124, 43, 105, 124, 87, 64, 22, 62, 53, 109, 2, 75, 42, 77,
       27, 28, 119, 109, 19, 127, 44, 61, 2, 59, 19, 34, 89, 41, 51, 117, 64,
       17, 105, 67, 89, 103, 27, 34, 95, 12, 87, 118, 75, 56, 64, 79, 117, 67,
       76, 105, 7, 121, 107, 49, 84, 17, 34, 76, 98, 62, 119, 73, 93, 61, 61,
       34, 105, 103, 10, 36, 6, 9, 51, 110, 66, 101, 82, 28, 84, 56, 66, 82,
       47, 57, 93, 125, 71, 12, 26, 28, 73, 12, 58, 32, 101, 123, 89, 30, 126,
       47, 97, 19, 65, 0, 85, 46, 37, 83, 70, 103, 126, 98, 15, 44, 54, 89,
       55, 51, 91, 26, 24, 64, 87, 23, 14, 28, 123, 71, 10, 92, 82, 45, 95, 1,
       70, 27, 34, 77, 46, 3, 114, 20, 58, 86, 71, 20, 122, 16, 61, 39, 104,
       84, 76, 20, 106, 17, 79, 70, 17, 122, 29, 101, 35, 51, 28, 3, 75, 44,
       53, 109, 46, 35, 2, 99, 126, 52, 62, 24, 26, 47, 84, 108, 11, 75, 18,
       20, 120, 84, 85, 58, 45, 46, 17, 19, 92, 124, 30, 35, 41, 35, 35, 88,
       80, 89, 31, 81, 6, 0, 108, 69, 67, 95, 16, 42, 8, 118, 116, 114, 65,
       21, 70, 19, 115, 81, 3, 38, 13, 13, 26, 18, 89, 0, 14, 21, 71, 36, 101,
       36, 51, 93, 85, 35, 5, 115, 61, 118, 47, 3, 86, 82, 50, 60, 84, 46,
       115, 75, 119, 100, 104, 91, 90, 33, 123, 105, 55, 23, 2, 7, 103, 71,
       46, 55, 42, 40, 121, 37, 51, 86, 17, 53, 115, 10, 0, 38, 6, 57, 89,
       119, 22, 14, 92, 43, 0, 40, 37, 40, 50, 61, 80, 105, 95, 61, 86, 70,
       24, 28, 109, 1, 6, 124, 56, 74, 6, 0, 98, 53, 60, 116, 56, 12, 119, 64,
       31, 99, 83, 16, 89, 122, 9, 22, 98, 19, 43, 22, 93, 68, 96, 45, 42, 28,
       50, 107, 52, 19, 12, 58, 72, 37, 92, 52, 122, 21, 56, 17, 70, 116, 81,
       4, 97, 107, 84, 90, 122, 45, 107, 102, 123, 65, 56, 105, 70, 42, 21,
       122, 65, 87, 65, 10, 45, 30, 119, 36, 112, 36, 104, 38, 38, 14, 74,
       116, 109, 114, 50, 68, 74, 30, 24, 87, 120, 53, 73, 102, 57, 10, 109,
       107, 34, 72, 68, 125, 52, 49, 114, 16, 64, 46, 121, 63, 105, 26, 14,
       26, 75, 116, 62, 82, 19, 9, 112, 24, 104, 102, 124, 99, 62, 86, 18, 13,
       83, 89, 107, 79, 34, 41, 97, 26, 61, 94, 49, 70, 125, 76, 89, 36, 124,
       0, 99, 116, 106, 98, 27, 55, 95, 39, 12, 32, 98, 0, 88, 107, 51, 26,
       74, 85, 123, 92, 87, 105, 38, 19, 123, 79, 100, 124, 38, 7, 53, 84, 44,
       116, 56, 110, 107, 6, 48, 54, 120, 100, 39, 14, 45, 105, 37, 112, 100,
       99, 14, 64, 20, 24, 103, 119, 95, 1, 19, 94, 54, 28, 7, 86, 108, 26,
       112, 29>>)
    @@
    (14 :> <<
       13, 78, 89, 96, 83, 67, 120, 31, 34, 94, 32, 37, 93, 9, 84, 57, 38, 59,
       87, 111, 50, 50, 99, 116, 15, 33, 28, 111, 115, 40, 45, 103, 33, 46,
       102, 80, 80, 66, 19, 20, 70, 85, 84, 35, 21, 1, 83, 8, 15, 76, 43, 3,
       10, 35, 26, 109, 125, 48, 51, 74, 126, 119, 56, 114, 77, 12, 111, 82,
       87, 113, 14, 74, 75, 81, 81, 46, 23, 110, 12, 95, 111, 62, 65, 86, 24,
       34, 57, 79, 27, 62, 102, 36, 64, 32, 13, 15, 104, 127, 11, 35, 35, 15,
       3, 20, 94, 52, 14, 87, 67, 75, 11, 54, 61, 124, 87, 21, 68, 49, 58, 39,
       62, 58, 55, 53, 76, 105, 12, 32, 60, 50, 30, 57, 110, 78, 120, 62, 8,
       72, 18, 62, 90, 34, 73, 56, 2, 105, 90, 51, 120, 126, 54, 2, 44, 90,
       72, 47, 120, 60, 33, 45, 38, 67, 24, 5, 80, 71, 60, 102, 32, 12, 49,
       12, 4, 24, 39, 3, 125, 0, 75, 64, 36, 66, 119, 102, 45, 126, 32, 14, 4,
       122, 18, 99, 25, 0, 29, 32, 111, 64, 33, 23, 31, 26, 77, 87, 117, 42,
       37, 92, 97, 114, 47, 4, 71, 117, 76, 94, 120, 100, 96, 20, 65, 82, 107,
       25, 46, 62, 49, 31, 122, 49, 69, 70, 99, 116, 40, 62, 117, 121, 78, 4,
       31, 82, 119, 54, 60, 99, 43, 11, 33, 103, 13, 16, 25, 6, 88, 118, 18,
       27, 33, 62, 57, 16, 69, 114, 48, 6, 100, 13, 32, 90, 47, 69, 54, 53,
       16, 56, 28, 11, 18, 103, 92, 22, 18, 2, 85, 116, 28, 125, 82, 110, 84,
       104, 45, 127, 119, 76, 84, 105, 71, 90, 5, 73, 52, 59, 34, 122, 60, 41,
       119, 9, 110, 46, 7, 127, 87, 82, 119, 82, 69, 105, 12, 117, 110, 8, 54,
       107, 125, 14, 111, 6, 106, 82, 119, 21, 8, 0, 101, 86, 39, 5, 17, 125,
       48, 113, 75, 19, 0, 113, 57, 59, 100, 110, 63, 91, 67, 2, 37, 10, 124,
       34, 31, 36, 87, 75, 82, 65, 0, 70, 127, 101, 30, 92, 126, 0, 118, 45,
       115, 14, 109, 15, 50, 48, 57, 37, 44, 92, 119, 42, 3, 32, 17, 36, 122,
       72, 103, 98, 90, 39, 123, 27, 67, 74, 106, 115, 56, 3, 115, 82, 8, 127,
       56, 43, 73, 49, 101, 76, 54, 32, 87, 97, 123, 124, 53, 124, 25, 100, 3,
       48, 110, 91, 60, 31, 49, 104, 66, 124, 15, 97, 28, 105, 30, 24, 32,
       108, 110, 9, 31, 101, 11, 58, 110, 84, 71, 6, 3, 24, 86, 103, 87, 77,
       83, 36, 99, 127, 54, 58, 28, 115, 95, 8, 80, 9, 90, 91, 23, 91, 47, 58,
       88, 25, 49, 13, 77, 46, 60, 27, 96, 87, 44, 42, 63, 68, 106, 125, 39,
       6, 22, 78, 81, 58, 17, 115, 109, 104, 35, 60, 115, 39, 68, 6, 19, 7,
       66, 3, 87, 39, 62, 46, 81, 37, 47, 85, 122, 94, 22, 16, 102, 127, 3,
       26, 64, 98, 8, 127, 16, 112, 75, 29, 115, 110, 39, 108, 51, 75, 60,
       105, 77, 103, 44, 22, 44, 31, 109, 110, 71, 81, 45, 42, 104, 66, 127,
       125, 55, 14, 1, 5, 39, 111, 114, 34, 21, 38, 25, 103, 101, 25, 14, 65,
       108, 94, 28, 119, 49, 36, 76, 56, 14, 49, 99, 14, 56, 126, 98, 77, 97,
       103, 9, 90, 105, 69, 105, 119, 30, 7, 75, 69, 26, 69, 68, 125, 96, 75,
       48, 24, 68, 10, 16, 46, 110, 126, 80, 61, 106, 15, 10, 98, 95, 121, 11,
       111, 71, 74, 29, 28, 115, 121, 13, 17, 60, 71, 60, 40, 49, 65, 8, 82,
       85, 113, 124, 112, 46, 15, 115, 64, 43, 108, 34, 21, 58, 61, 124, 91,
       99, 12, 80, 45, 5, 68, 57, 40, 1, 96, 7, 68, 48, 25, 31, 69, 13, 45,
       65, 89, 100, 119, 118, 21, 117, 35, 54, 6, 22, 96, 123, 8, 54, 80, 43,
       61, 105, 24, 71, 112, 121, 112, 89, 113, 121, 55, 19, 97, 120, 71, 69,
       96, 89, 53, 38, 91, 31, 103, 37, 27, 21, 89, 122, 83, 15, 32, 31, 65,
       81, 7, 26, 18, 27, 50, 32, 14, 29, 29, 1, 25, 94, 86, 84, 98, 39, 4,
       115, 35, 71, 30, 28, 42, 123, 17, 29, 6, 103, 35, 104, 23, 0, 70, 108,
       104, 53, 81, 64, 35, 121, 62, 57, 98, 30, 95, 6, 63, 113, 19, 58, 26,
       91, 93, 82, 33, 125, 122, 119, 124, 119, 25, 64, 74, 116, 83, 39, 118,
       15, 63, 81, 51, 3, 61, 124, 68, 41, 126, 54, 40, 37, 69, 41, 107, 68,
       8, 102, 83, 1, 126, 43, 8, 31, 20, 122, 24, 56, 32, 56, 63, 119, 90,
       49, 97, 49, 0, 51, 73, 30, 109, 90, 9, 36, 11, 65, 77, 73, 26, 98, 84,
       94, 66, 61, 121, 121, 102, 121, 113, 120, 53, 91, 103, 58, 42, 46, 48,
       110, 72, 60, 90, 95, 33, 49, 35, 46, 23, 2, 16, 93, 125, 37, 15, 63,
       104, 92, 118, 106, 83, 120, 62, 84, 7, 29, 60, 118, 2, 6, 17, 52, 82,
       118, 97, 108, 22, 76, 25, 111, 88, 22, 49, 5, 26, 37, 16, 119, 106, 5,
       41, 41, 8, 65, 123, 26, 118, 111, 2, 13, 92, 10, 71, 127, 98, 1, 96,
       28, 71, 52, 19, 112, 6, 42, 42, 72, 77, 102, 53, 79, 53, 106, 78, 2,
       80, 69, 61, 2, 115, 109, 6, 3, 123, 12, 91, 54, 24, 79, 76, 1, 103, 81,
       16, 13, 38, 41, 2, 5, 69, 93, 24, 106, 59, 98, 84, 41, 23, 31, 36, 123,
       34, 104, 120, 123, 60, 53, 24, 112, 62, 86, 95, 100, 27, 65, 23, 100,
       79, 63, 29, 34, 126, 61, 20, 5, 10, 86, 49, 42, 63, 23, 23, 101, 75,
       67, 55, 40, 83, 118, 115, 120, 36, 54, 99, 69, 43, 0, 6, 45, 4, 126,
       68, 65, 100, 127, 31, 3, 70, 2, 117, 7, 42, 9, 67, 96, 101, 126, 20,
       97, 42, 77, 62, 48, 94, 48, 73, 16, 42, 50, 24, 15, 16, 103, 126, 68,
       114, 48, 51, 109, 25, 38, 15, 111, 115, 91, 45, 80, 8, 76, 39, 81, 64,
       115, 34, 127, 85, 71, 36, 122, 57, 31, 5, 118, 94, 113, 77, 81, 57, 14,
       49, 113, 14, 48, 49, 42, 15, 121, 42, 11, 37, 82, 95, 28, 39, 111, 105,
       27, 106, 13, 41, 62, 90, 58, 117, 96, 7, 35, 70, 37, 70, 37, 121, 70,
       117, 16, 43, 71, 122, 105, 118, 88, 39, 32, 86, 61, 11, 12, 57, 60,
       123, 97, 34, 0, 38, 82, 120, 117, 48, 35, 110, 40, 91, 87, 18, 19, 10,
       34, 76, 79, 113, 66, 111, 21, 119, 25, 96, 62, 77, 111, 120, 25, 90,
       87, 103, 68, 51, 35, 49, 52, 40, 105, 12, 13, 119, 70, 64, 61, 41, 14,
       29, 53, 125, 21, 114, 51, 57, 3, 118, 72, 93, 102, 92, 111, 84, 119,
       96, 32, 109, 102, 97, 45, 77, 91, 39, 60, 55, 95, 122, 51, 35, 122, 33,
       59, 105, 102, 50, 23, 37, 93, 98, 26, 58, 52, 93, 48, 127, 85, 71, 73,
       57, 35, 23, 119, 114, 5, 112, 61, 36, 16, 124, 13, 64, 28, 4, 120, 98,
       2, 123, 92, 21, 73, 120, 107, 118, 108, 110, 15, 75, 118, 125, 18, 104,
       15, 70, 30, 62, 89, 26, 73, 21, 88, 111, 27, 4, 60, 111, 41, 16, 123,
       3, 72, 103, 89, 52, 57, 73, 14, 21, 12, 63, 28, 21, 94, 76, 25, 40, 61,
       96, 43, 20, 16, 114, 47, 33, 62, 33, 117, 65, 99, 28, 55, 108, 37, 97,
       30, 32, 45, 66, 67, 84, 124, 64, 9, 4, 24, 56, 50, 108, 72, 36, 8, 76,
       2, 90, 70, 126, 2, 84, 105, 116, 85, 102, 59, 62, 127, 82, 61, 108,
       120, 92, 28, 25, 9, 47, 53, 114, 67, 119, 85, 1, 16, 41, 90, 51, 37,
       75, 121, 37, 102, 55, 99, 110, 5, 0, 7, 49, 4, 7, 56, 31, 4, 70, 18,
       125, 7, 73, 127, 34, 59, 18, 33, 15, 19, 85, 35, 70, 13, 41, 101, 30,
       118, 37, 104, 117, 9, 20, 77, 53, 109, 99, 50, 69, 99, 58, 1, 37, 66,
       113, 95, 73, 54, 84, 12, 73, 124, 70, 103, 112, 36, 8, 93, 3, 21, 100,
       78, 43, 91, 92, 76, 6, 56, 13, 105, 95, 52, 104, 9, 69, 19, 74, 19,
       114, 99, 52, 8, 74, 123, 106, 73, 84, 8, 5, 120, 114, 126, 85, 29, 46,
       71, 30, 29, 119, 17, 80, 9, 114, 113, 31, 28, 90, 26, 72, 22, 43, 36,
       75, 121, 61, 26, 72, 23, 6, 7, 124, 90, 49, 13, 51, 104, 117, 120, 113,
       35, 93, 59, 15, 102, 51, 62, 57, 40, 2, 117, 45, 127, 96, 30, 67, 107,
       105, 4, 93, 105, 17, 44, 127, 126, 40, 3, 53, 26, 66, 51, 3, 64, 121,
       99, 35, 16, 4, 7, 26, 30, 124, 12, 12, 121, 96, 65, 28, 25, 98, 41, 14,
       33, 80, 57, 29, 41, 79, 80, 94, 27, 88, 87, 74, 117, 116, 96, 56, 10,
       59, 61, 83, 104, 14, 9, 93, 120, 43, 14, 0, 13, 71, 1, 1, 109, 89, 3,
       6, 60, 48, 75, 23, 61, 91, 127, 117, 76, 109, 0, 103, 50, 93, 20, 49,
       114, 98, 29, 32, 84, 21, 56, 107, 55, 45, 68, 123, 32, 103, 82, 117,
       76, 15, 103, 60, 104, 114, 12, 94, 104, 67, 41, 69, 124, 7, 73, 108,
       25, 55, 66, 116, 69, 44, 65, 41, 49, 119, 74, 27, 69, 110, 101, 70, 43,
       127, 58, 111, 1, 37, 95, 73, 7, 120, 111, 99, 66, 13, 73, 47, 49, 87,
       70, 124, 12, 11, 20, 102, 68, 88, 38, 10, 64, 88, 63, 105, 125, 103,
       83, 11, 2, 31, 84, 84, 40, 98, 23, 59, 46, 111, 114, 62, 101, 27, 58,
       6, 110, 49, 66, 97, 19, 75, 90, 17, 110, 84, 87, 21, 37, 76, 61, 96,
       16, 53, 31, 86, 8, 21, 123, 93, 92, 85, 62, 118, 87, 101, 89, 94, 60,
       50, 32, 24, 63, 96, 69, 19, 48, 62, 28, 45, 74, 48, 83, 80, 29, 75, 16,
       15, 96, 112, 126, 27, 93, 102, 105, 98, 92, 70, 49, 96, 74, 100, 58,
       22, 125, 106, 14, 20, 127, 121, 16, 8, 39, 94, 73, 78, 120, 29, 112,
       87, 97, 47, 82, 92, 96, 52, 39, 118, 5, 93, 75, 89, 27, 20, 58, 99, 98,
       119, 125, 110, 16, 117, 118, 55, 29, 84, 66, 78, 102, 18, 86, 88, 48,
       47, 114, 62, 21, 99, 105, 126, 126, 34, 107, 82, 14, 25, 49, 16, 12,
       33, 44, 73, 51, 10, 20, 79, 59, 68, 106, 58, 84, 103, 38, 89, 15, 106,
       14, 4, 104, 115, 33, 18, 71, 43, 24, 0, 89, 39, 10, 118, 60, 57, 56,
       60, 65, 71, 26, 0, 87, 97, 122, 76, 26, 77, 9, 117, 35, 19, 43, 94,
       110, 122, 4, 110, 5, 8, 68, 40, 59, 89, 27, 100, 87, 38, 50, 67, 123,
       100, 27, 111, 67, 23, 16, 124, 13, 96, 122, 68, 113, 33, 95, 34, 64,
       24, 85, 102, 28, 39, 23, 32, 27, 50, 34, 34, 50, 29, 64, 87, 34, 7, 45,
       38, 102, 32, 102, 116, 32, 90, 72, 115, 13, 115, 80, 64, 79, 34, 23,
       73, 107, 99, 78, 126, 123, 93, 34, 92, 19, 62, 99, 96, 96, 93, 29, 77,
       56, 24, 22, 5, 59, 43, 125, 115, 33, 50, 45, 14, 110, 36, 126, 64, 65,
       5, 70, 21, 64, 14, 90, 125, 116, 115, 117, 100, 72, 46, 59, 124, 109,
       33, 86, 77, 126, 70, 13, 88, 94, 84, 102, 3, 45, 26, 1, 18, 43, 103,
       124, 95, 97, 119, 43, 106, 108, 82, 10, 48, 94, 53, 70, 61, 126, 117,
       37, 98, 44, 62, 45, 37, 56, 27, 59, 47, 24, 106, 57, 107, 6, 83, 80,
       84, 106, 4, 41, 87, 57, 57, 123, 80, 107, 112, 88, 56, 73, 97, 123,
       103, 60, 0, 79, 24, 113, 37, 45, 9, 54, 93, 84, 37, 91, 6, 89, 83, 52,
       50, 35, 60, 98, 107, 92, 26, 66, 119, 32, 88, 9, 5, 66, 127, 116, 104,
       111, 66, 95, 118, 54, 120, 111, 1, 112, 125, 39, 56, 68, 102, 46, 53,
       24, 7, 62, 109, 28, 47, 121, 95, 125, 36, 32, 50, 21, 68, 25, 83, 117,
       11, 42, 118, 105, 72, 127, 71, 44, 122, 107, 26, 13, 114, 5, 123, 86,
       127, 39, 42, 29, 102, 64, 126, 101, 77, 56, 21, 70, 27, 97, 104, 11,
       114, 65, 15, 4, 61, 26, 68, 15, 29, 22, 100, 117, 3, 2, 20, 62, 18, 9,
       71, 1, 113, 118, 80, 64, 19, 109, 105, 80, 17, 73, 121, 98, 7, 0, 121,
       26, 105, 86, 112, 127, 85, 24, 64, 50, 25, 87, 4, 73, 94, 93, 8, 5, 8,
       31, 85, 86, 125, 95, 17, 84, 106, 103, 32, 102, 91, 0, 17, 38, 116, 9,
       37, 15, 107, 92, 46, 49, 60, 112, 18, 3, 35, 58, 59, 124, 85, 46, 115,
       87, 71, 111, 120, 102, 94, 41, 78, 57, 2, 98, 50, 67, 11, 54, 67, 121,
       27, 32, 75, 89, 43, 45, 107, 80, 84, 96, 4, 113, 39, 102, 51, 64, 108,
       74, 39, 87, 64, 96, 93, 118, 75, 2, 123, 2, 102, 122, 0, 82, 99, 12, 4,
       38, 63, 17, 65, 40, 61, 18, 101, 92, 104, 19, 20, 58, 104, 7, 17, 50,
       21, 33, 41, 69, 82, 33, 95, 27, 44, 45, 111, 120, 48, 126, 73, 20, 3,
       94, 127, 7, 46, 40, 113, 99, 32, 93, 25, 88, 24, 63, 50, 56, 60, 6, 95,
       84, 47, 81, 34, 47, 69, 18, 81, 33, 75, 103, 67, 11, 23, 76, 47, 98,
       91, 95, 5, 47, 89, 87, 61, 27, 61, 34, 119, 81, 119, 14, 37, 65, 8, 87,
       59, 5, 118, 5, 97, 103, 123, 101, 61, 123, 7, 14, 85, 107, 88, 72, 109,
       70, 30, 23, 110, 46, 42, 24, 51, 2, 48, 89, 50, 12, 70, 11, 77, 100, 9,
       105, 10, 12, 5, 56, 85, 19, 75, 43, 80, 58, 125, 36, 119, 43, 125, 58,
       65, 91, 47, 25, 97, 21, 111, 59, 115, 37, 23, 30, 114, 19, 56, 104, 48,
       102, 44, 14, 124, 83, 87, 56, 6, 8, 91, 9, 103, 127, 79, 13, 85, 66,
       32, 89, 40, 96, 29, 90, 7, 9, 104, 48, 50, 14, 100, 92, 71, 101, 98,
       29, 116, 74, 33, 31, 121, 47, 73, 24, 54, 42, 84, 19, 39, 1, 55, 50,
       96, 105, 88, 80, 84, 84, 38, 59, 24, 21, 99, 32, 14, 12, 1, 77, 15, 20,
       85, 85, 21, 3, 31, 93, 65, 31, 0, 20, 124, 58, 95, 28, 62, 100, 8, 83,
       69, 58, 117, 68, 31, 98, 77, 83, 122, 54, 56, 71, 14, 56, 125, 81, 117,
       103, 49, 98, 25, 121, 107, 3, 43, 8, 25, 14, 103, 121, 6, 47, 66, 63,
       41, 57, 30, 59, 110, 85, 54, 79, 101, 26, 2, 62, 95, 108, 65, 58, 92,
       58, 35, 37, 56, 52, 28, 49, 36, 24, 1, 77, 104, 8, 36, 31, 27, 2, 55,
       103, 44, 54, 70, 48, 36, 110, 48, 96, 63, 31, 96, 80, 115, 35, 83, 46,
       63, 12, 124, 65, 32, 81, 91, 32, 33, 46, 23, 31, 85, 87, 75, 118, 54,
       109, 17, 97, 23, 102, 78, 51, 57, 39, 124, 113, 28, 125, 104, 91, 113,
       32, 37, 7, 21, 81, 60, 10, 125, 109, 26, 23, 25, 35, 46, 14, 85, 99,
       23, 22, 110, 21, 12, 45, 114, 15, 118, 8, 70, 117, 100, 52, 61, 31, 92,
       22, 32, 94, 2, 4, 96, 65, 23, 55, 90, 68, 2, 45, 90, 117, 27, 6, 18,
       96, 104, 19, 43, 6, 38, 12, 46, 34, 35, 61, 76, 30, 54, 22, 12, 16, 31,
       103, 110, 115, 76, 36, 1, 97, 99, 85, 39, 108, 65, 117, 67, 73, 1, 30,
       3, 51, 67, 66, 26, 8, 25, 37, 97, 13, 34, 92, 16, 30, 93, 19, 110, 36,
       79, 78, 20, 89, 3, 47, 43, 48, 37, 4, 22, 60, 71, 80, 27, 70, 16, 81,
       114, 70, 51, 105, 19, 110, 96, 63, 16, 109, 83, 21, 112, 23, 107, 114,
       7, 41, 103, 48, 23, 15, 56, 73, 63, 92, 116, 9, 32, 37, 7, 6, 51, 54,
       68, 29, 45, 75, 31, 87, 52, 54, 70, 63, 17, 124, 32, 86, 113, 13, 106,
       99, 122, 58, 36, 113, 42, 18, 91, 60, 23, 124, 80, 101, 4, 107, 52,
       116, 16, 110, 19, 85, 90, 7, 88, 94, 86, 63, 14, 10, 115, 17, 85, 119,
       32, 0, 50, 28, 62, 103, 56, 123, 80, 30, 17, 124, 90, 78, 19, 57, 123,
       63, 45, 58, 96, 72, 5, 15, 52, 105, 125, 51, 97, 46, 53, 24, 107, 24,
       117, 75, 26, 117, 84, 22, 28, 95, 51, 110, 27, 70, 71, 112, 67, 115,
       46, 81, 14, 99, 13, 57, 89, 15, 8, 54, 110, 59, 127, 30, 32, 27, 75,
       53, 95, 123, 108, 127, 35, 21, 25, 107, 91, 37, 53, 52, 113, 113, 61,
       86, 95, 111, 80, 13, 7, 61, 27, 28, 35>>)
    @@
    (15 :> <<
       123, 26, 1, 66, 94, 4, 20, 116, 126, 30, 2, 7, 112, 103, 87, 18, 109,
       88, 127, 47, 30, 14, 43, 59, 90, 45, 35, 50, 33, 44, 29, 119, 109, 26,
       111, 45, 102, 40, 28, 39, 118, 93, 65, 53, 29, 73, 58, 107, 53, 62, 10,
       59, 72, 102, 46, 56, 72, 40, 119, 88, 82, 57, 51, 99, 110, 103, 127, 8,
       62, 122, 120, 107, 2, 25, 17, 68, 22, 78, 120, 100, 88, 108, 92, 2, 36,
       67, 63, 19, 113, 109, 12, 114, 14, 50, 6, 9, 59, 92, 107, 117, 71, 37,
       51, 118, 64, 29, 22, 69, 121, 64, 45, 10, 30, 39, 39, 21, 105, 80, 40,
       49, 115, 60, 43, 111, 56, 100, 9, 96, 116, 107, 101, 34, 60, 18, 14,
       86, 63, 49, 48, 1, 107, 33, 118, 123, 94, 11, 36, 8, 5, 57, 114, 7,
       120, 32, 20, 105, 63, 72, 61, 111, 124, 63, 5, 64, 7, 60, 107, 10, 72,
       122, 59, 29, 99, 96, 75, 57, 88, 92, 32, 86, 10, 78, 1, 7, 42, 96, 83,
       106, 48, 55, 44, 7, 79, 119, 90, 38, 76, 57, 39, 70, 105, 3, 102, 55,
       114, 111, 114, 49, 1, 114, 85, 117, 44, 78, 49, 116, 66, 0, 18, 32, 31,
       63, 126, 65, 42, 41, 116, 31, 87, 75, 40, 62, 40, 0, 77, 45, 89, 28,
       43, 118, 7, 109, 22, 82, 110, 64, 93, 121, 13, 126, 106, 92, 73, 51,
       42, 111, 114, 109, 16, 42, 12, 40, 43, 58, 94, 78, 70, 79, 61, 73, 116,
       15, 50, 118, 100, 74, 0, 12, 100, 108, 19, 90, 83, 59, 107, 20, 83, 25,
       74, 69, 70, 79, 96, 41, 47, 51, 29, 125, 71, 82, 66, 80, 14, 127, 67,
       92, 59, 75, 20, 106, 90, 87, 99, 117, 43, 58, 110, 77, 126, 72, 84,
       123, 52, 3, 34, 43, 16, 97, 34, 45, 127, 23, 7, 59, 117, 127, 89, 74,
       100, 27, 12, 8, 82, 32, 26, 95, 86, 9, 101, 112, 92, 56, 68, 20, 113,
       113, 29, 41, 20, 78, 110, 112, 7, 47, 53, 28, 53, 94, 112, 21, 47, 96,
       72, 18, 64, 22, 61, 127, 60, 117, 59, 59, 76, 21, 55, 8, 54, 35, 118,
       56, 124, 94, 31, 85, 121, 125, 3, 57, 42, 51, 115, 83, 21, 4, 85, 74,
       127, 0, 78, 86, 58, 56, 3, 43, 57, 113, 59, 76, 100, 33, 49, 58, 103,
       56, 51, 89, 81, 64, 97, 15, 21, 85, 122, 40, 57, 116, 61, 42, 124, 90,
       73, 59, 66, 10, 27, 108, 28, 21, 97, 70, 64, 51, 84, 13, 89, 51, 87,
       42, 41, 115, 110, 110, 57, 32, 22, 119, 111, 34, 115, 53, 15, 38, 113,
       88, 88, 28, 34, 20, 73, 33, 118, 37, 19, 57, 84, 65, 30, 122, 19, 61,
       121, 66, 127, 15, 83, 31, 101, 27, 50, 125, 54, 28, 78, 36, 104, 52,
       89, 82, 60, 83, 80, 86, 51, 95, 103, 121, 111, 60, 99, 28, 41, 102, 48,
       45, 125, 43, 48, 42, 85, 42, 12, 99, 16, 63, 28, 122, 86, 94, 29, 73,
       84, 105, 9, 22, 88, 67, 89, 39, 32, 27, 30, 63, 32, 125, 63, 109, 23,
       107, 30, 107, 102, 62, 119, 47, 20, 112, 66, 82, 84, 27, 121, 119, 71,
       108, 68, 77, 98, 81, 100, 124, 91, 42, 79, 14, 103, 76, 5, 33, 98, 7,
       28, 4, 45, 108, 50, 42, 66, 37, 75, 81, 75, 116, 40, 41, 46, 53, 83,
       70, 119, 80, 48, 96, 1, 117, 109, 60, 113, 95, 107, 72, 81, 29, 53, 89,
       8, 85, 117, 21, 55, 17, 15, 7, 79, 11, 5, 80, 49, 95, 77, 68, 102, 55,
       45, 19, 25, 68, 44, 116, 105, 127, 11, 120, 17, 6, 44, 66, 121, 33,
       113, 66, 123, 65, 6, 56, 64, 3, 18, 0, 74, 56, 101, 121, 61, 28, 88,
       18, 87, 21, 64, 79, 49, 127, 30, 101, 92, 28, 125, 91, 123, 121, 118,
       54, 108, 42, 83, 103, 63, 6, 15, 98, 102, 69, 23, 50, 119, 119, 109,
       73, 36, 122, 116, 40, 96, 97, 103, 80, 13, 112, 34, 123, 19, 66, 120,
       1, 31, 32, 56, 18, 96, 123, 50, 36, 80, 9, 79, 67, 48, 126, 118, 28,
       85, 106, 94, 6, 93, 63, 79, 44, 21, 22, 117, 25, 120, 14, 13, 37, 47,
       87, 23, 30, 16, 112, 74, 37, 55, 121, 17, 72, 61, 31, 89, 2, 17, 66,
       82, 115, 84, 96, 106, 4, 127, 100, 112, 101, 47, 54, 10, 61, 42, 77,
       21, 82, 109, 89, 46, 100, 71, 7, 92, 82, 58, 7, 127, 62, 84, 42, 76,
       77, 21, 99, 30, 51, 88, 46, 56, 122, 74, 125, 112, 50, 86, 99, 107,
       120, 46, 48, 8, 18, 35, 87, 115, 79, 30, 78, 15, 12, 8, 27, 127, 51,
       26, 40, 9, 55, 45, 27, 5, 105, 93, 48, 88, 25, 54, 70, 92, 53, 2, 72,
       101, 109, 82, 2, 96, 0, 18, 10, 121, 12, 126, 120, 61, 124, 40, 23, 66,
       52, 90, 107, 59, 91, 69, 5, 121, 14, 90, 12, 49, 19, 116, 103, 100,
       113, 2, 16, 63, 36, 38, 70, 39, 41, 47, 58, 107, 111, 78, 64, 31, 120,
       8, 100, 19, 39, 48, 42, 69, 111, 63, 80, 54, 34, 67, 22, 39, 56, 121,
       37, 28, 0, 47, 48, 84, 121, 107, 29, 51, 47, 81, 123, 32, 9, 1, 25,
       124, 118, 8, 46, 97, 105, 4, 84, 38, 106, 65, 29, 115, 87, 102, 115,
       38, 2, 1, 23, 96, 18, 95, 108, 119, 103, 17, 7, 85, 77, 79, 97, 112,
       112, 108, 40, 98, 25, 108, 40, 10, 87, 126, 34, 77, 121, 114, 81, 19,
       103, 66, 6, 113, 106, 123, 29, 78, 66, 114, 82, 2, 22, 13, 77, 32, 115,
       111, 27, 91, 24, 54, 37, 117, 16, 65, 30, 18, 79, 120, 0, 94, 40, 127,
       75, 99, 103, 64, 99, 114, 6, 16, 119, 0, 68, 33, 18, 121, 108, 11, 71,
       96, 41, 68, 75, 16, 68, 26, 47, 92, 13, 49, 20, 112, 8, 6, 67, 73, 21,
       108, 117, 30, 113, 35, 97, 74, 66, 22, 72, 82, 96, 118, 24, 40, 111,
       21, 64, 112, 96, 6, 83, 109, 7, 53, 14, 102, 22, 48, 70, 122, 74, 83,
       127, 76, 63, 9, 91, 74, 58, 30, 126, 90, 60, 40, 29, 29, 48, 17, 38,
       32, 72, 15, 38, 35, 79, 68, 89, 109, 30, 99, 62, 46, 63, 118, 127, 44,
       118, 54, 104, 69, 61, 76, 58, 63, 119, 84, 57, 25, 98, 27, 64, 42, 79,
       56, 45, 32, 37, 72, 42, 9, 47, 54, 52, 58, 33, 77, 115, 18, 92, 83, 77,
       59, 66, 118, 9, 17, 3, 51, 47, 100, 109, 119, 92, 103, 5, 113, 100, 56,
       122, 28, 87, 33, 71, 81, 61, 84, 117, 54, 105, 24, 118, 111, 58, 41,
       28, 30, 102, 106, 10, 99, 18, 85, 94, 101, 27, 79, 40, 79, 43, 50, 5,
       22, 65, 119, 61, 13, 60, 98, 73, 40, 83, 95, 90, 115, 22, 100, 58, 3,
       82, 111, 1, 29, 16, 34, 52, 126, 30, 107, 76, 20, 84, 108, 71, 33, 120,
       80, 88, 104, 68, 9, 120, 23, 105, 16, 53, 18, 13, 115, 71, 3, 48, 40,
       77, 108, 30, 2, 1, 58, 123, 106, 65, 117, 103, 105, 115, 6, 118, 5, 55,
       94, 64, 58, 16, 62, 45, 86, 72, 103, 122, 35, 103, 122, 114, 38, 65,
       111, 34, 9, 9, 4, 32, 76, 10, 95, 125, 81, 30, 8, 70, 119, 4, 118, 34,
       115, 8, 90, 90, 0, 32, 56, 98, 23, 112, 29, 108, 61, 80, 109, 34, 82,
       94, 125, 21, 45, 73, 11, 113, 102, 116, 112, 49, 64, 17, 29, 28, 81,
       22, 32, 44, 51, 33, 75, 90, 92, 113, 94, 66, 12, 98, 51, 62, 65, 86,
       39, 35, 8, 46, 33, 12, 55, 100, 80, 55, 125, 23, 26, 51, 72, 20, 26,
       102, 16, 83, 36, 42, 54, 113, 108, 110, 39, 64, 121, 2, 100, 59, 51,
       120, 112, 29, 34, 88, 2, 92, 58, 65, 79, 69, 87, 77, 1, 109, 1, 58, 87,
       53, 118, 8, 62, 31, 98, 0, 22, 7, 18, 57, 59, 26, 123, 106, 14, 124,
       68, 77, 87, 46, 2, 96, 103, 61, 24, 103, 106, 77, 76, 27, 6, 45, 27,
       97, 54, 24, 7, 7, 94, 28, 54, 17, 16, 116, 27, 116, 87, 103, 55, 106,
       67, 96, 25, 71, 35, 95, 30, 78, 56, 64, 17, 10, 3, 49, 121, 0, 124,
       113, 4, 32, 114, 118, 37, 110, 68, 24, 65, 12, 10, 63, 43, 17, 54, 120,
       70, 126, 69, 117, 46, 64, 66, 4, 15, 62, 89, 49, 75, 28, 23, 63, 58,
       123, 64, 75, 63, 10, 29, 18, 62, 57, 71, 30, 126, 25, 110, 119, 97, 99,
       45, 17, 66, 22, 41, 127, 76, 66, 100, 12, 100, 62, 121, 62, 97, 87,
       100, 79, 58, 71, 29, 90, 48, 85, 66, 50, 61, 12, 63, 37, 1, 75, 125,
       96, 48, 15, 42, 43, 108, 50, 50, 96, 99, 88, 13, 67, 68, 7, 5, 107, 64,
       0, 101, 38, 34, 102, 82, 97, 94, 65, 52, 67, 23, 25, 90, 33, 111, 100,
       120, 5, 126, 28, 112, 60, 46, 78, 96, 11, 101, 82, 57, 37, 114, 3, 16,
       97, 95, 122, 89, 84, 29, 35, 16, 44, 87, 108, 11, 42, 39, 26, 116, 113,
       94, 25, 49, 20, 56, 107, 35, 3, 95, 122, 71, 4, 79, 91, 29, 8, 118, 81,
       33, 47, 88, 119, 126, 12, 113, 55, 6, 83, 69, 39, 91, 96, 57, 22, 34,
       27, 28, 92, 45, 86, 83, 107, 69, 83, 108, 15, 34, 32, 84, 28, 124, 66,
       43, 76, 49, 54, 42, 126, 9, 38, 24, 125, 100, 4, 40, 112, 32, 12, 106,
       81, 0, 66, 41, 17, 22, 119, 46, 94, 17, 16, 89, 0, 34, 87, 86, 10, 17,
       95, 109, 109, 14, 41, 100, 122, 19, 70, 55, 73, 77, 37, 11, 62, 69,
       110, 80, 106, 53, 60, 94, 69, 68, 5, 5, 113, 98, 16, 124, 32, 18, 38,
       21, 71, 74, 119, 81, 96, 57, 60, 22, 76, 63, 77, 44, 64, 67, 44, 118,
       124, 55, 124, 127, 15, 119, 117, 26, 93, 63, 116, 16, 29, 18, 102, 71,
       25, 6, 112, 97, 89, 90, 14, 125, 54, 96, 82, 107, 16, 41, 42, 126, 77,
       28, 38, 117, 19, 118, 3, 96, 99, 102, 81, 25, 36, 103, 20, 27, 16, 28,
       30, 11, 60, 103, 125, 96, 60, 56, 87, 5, 44, 18, 120, 104, 2, 83, 91,
       35, 39, 117, 28, 71, 40, 4, 24, 126, 87, 43, 59, 58, 17, 114, 105, 118,
       48, 34, 74, 113, 103, 33, 98, 2, 42, 9, 18, 20, 124, 73, 66, 34, 0,
       107, 56, 49, 104, 9, 13, 63, 11, 11, 103, 1, 41, 118, 31, 13, 34, 14,
       32, 33, 71, 15, 79, 55, 117, 85, 67, 50, 110, 69, 88, 6, 120, 20, 122,
       33, 5, 80, 92, 95, 84, 122, 87, 60, 126, 23, 84, 45, 45, 48, 34, 116,
       107, 86, 83, 62, 75, 61, 108, 93, 53, 90, 12, 117, 60, 64, 26, 96, 65,
       123, 15, 115, 1, 20, 60, 124, 99, 70, 87, 115, 103, 114, 4, 109, 34,
       102, 92, 94, 90, 127, 77, 74, 24, 33, 60, 73, 51, 77, 93, 108, 34, 78,
       25, 53, 37, 95, 122, 61, 28, 29, 76, 123, 106, 85, 70, 76, 123, 101,
       67, 71, 26, 59, 34, 7, 82, 80, 25, 35, 27, 77, 95, 115, 19, 90, 113,
       93, 37, 12, 54, 83, 127, 116, 110, 68, 25, 86, 33, 37, 113, 89, 71, 32,
       102, 66, 24, 98, 40, 67, 10, 79, 125, 23, 115, 72, 46, 82, 46, 88, 91,
       25, 35, 67, 14, 66, 55, 70, 74, 23, 121, 108, 74, 76, 87, 38, 0, 126,
       58, 78, 28, 41, 29, 52, 31, 45, 56, 30, 34, 19, 86, 11, 100, 8, 7, 87,
       76, 46, 69, 47, 27, 49, 65, 122, 34, 118, 31, 33, 40, 87, 66, 123, 4,
       109, 12, 61, 1, 103, 75, 27, 124, 92, 125, 32, 25, 92, 20, 39, 108,
       115, 116, 15, 60, 41, 55, 26, 108, 62, 8, 7, 120, 20, 4, 31, 2, 4, 54,
       90, 57, 108, 91, 123, 78, 56, 106, 46, 6, 75, 59, 44, 60, 1, 110, 50,
       12, 101, 60, 32, 65, 35, 123, 44, 31, 104, 76, 45, 65, 41, 11, 30, 8,
       20, 36, 112, 105, 120, 114, 102, 32, 72, 24, 39, 50, 79, 83, 71, 118,
       32, 28, 87, 29, 112, 1, 85, 83, 43, 2, 122, 53, 114, 9, 81, 45, 38, 5,
       27, 127, 113, 44, 35, 64, 10, 5, 35, 114, 107, 122, 104, 23, 115, 56,
       114, 90, 92, 91, 77, 51, 102, 124, 72, 58, 124, 99, 38, 54, 5, 54, 96,
       33, 67, 34, 115, 12, 59, 41, 75, 104, 19, 11, 55, 112, 21, 52, 1, 57,
       13, 30, 89, 45, 113, 51, 7, 0, 104, 16, 69, 50, 58, 39, 5, 118, 127,
       34, 82, 0, 18, 59, 64, 54, 43, 43, 44, 43, 10, 101, 122, 0, 58, 7, 16,
       55, 27, 56, 44, 76, 127, 61, 73, 92, 51, 107, 110, 39, 1, 107, 85, 45,
       5, 69, 72, 86, 83, 41, 90, 96, 80, 0, 54, 50, 126, 126, 104, 44, 8, 47,
       1, 15, 15, 98, 51, 46, 19, 79, 37, 126, 6, 1, 37, 63, 27, 124, 22, 98,
       115, 108, 91, 116, 112, 8, 51, 105, 21, 10, 22, 112, 83, 33, 30, 78,
       14, 98, 49, 85, 47, 115, 36, 93, 53, 107, 97, 2, 84, 64, 34, 122, 51,
       71, 120, 117, 124, 117, 44, 57, 31, 15, 25, 38, 52, 110, 114, 0, 13,
       114, 69, 68, 95, 73, 7, 22, 89, 92, 12, 27, 34, 105, 57, 16, 43, 6, 36,
       78, 19, 100, 50, 86, 111, 114, 108, 56, 48, 104, 13, 97, 82, 110, 62,
       54, 96, 17, 63, 70, 40, 81, 9, 58, 53, 60, 14, 118, 21, 30, 35, 42, 60,
       119, 52, 87, 52, 115, 8, 127, 19, 91, 11, 76, 28, 109, 45, 76, 58, 52,
       91, 116, 0, 36, 30, 41, 127, 61, 77, 126, 29, 58, 114, 69, 97, 1, 76,
       21, 127, 81, 48, 112, 65, 85, 30, 10, 105, 42, 24, 22, 78, 23, 103,
       103, 127, 18, 72, 119, 44, 65, 30, 119, 49, 109, 13, 77, 122, 69, 18,
       54, 116, 52, 50, 78, 10, 58, 114, 64, 124, 32, 13, 116, 119, 105, 22,
       52, 70, 48, 49, 114, 18, 43, 28, 46, 109, 57, 71, 81, 63, 71, 21, 105,
       88, 34, 62, 82, 82, 103, 86, 87, 123, 110, 82, 23, 80, 29, 39, 63, 19,
       1, 122, 95, 39, 73, 114, 106, 96, 118, 12, 114, 107, 65, 27, 102, 48,
       34, 22, 3, 49, 66, 94, 17, 55, 28, 99, 107, 101, 15, 37, 30, 93, 73,
       59, 123, 124, 30, 100, 60, 13, 22, 82, 19, 8, 11, 89, 125, 8, 34, 20,
       18, 113, 49, 69, 101, 111, 54, 1, 83, 66, 25, 6, 62, 100, 120, 50, 106,
       35, 50, 53, 13, 11, 107, 73, 49, 91, 82, 103, 80, 79, 18, 44, 70, 120,
       29, 121, 87, 92, 16, 112, 89, 29, 62, 101, 14, 81, 53, 6, 75, 52, 122,
       82, 51, 126, 88, 118, 77, 127, 119, 124, 82, 28, 76, 116, 22, 66, 59,
       96, 120, 70, 108, 62, 36, 26, 5, 120, 83, 110, 42, 48, 54, 56, 0, 108,
       67, 54, 76, 29, 37, 22, 90, 25, 110, 93, 116, 79, 3, 104, 49, 64, 39,
       95, 75, 55, 91, 104, 56, 84, 119, 89, 70, 114, 82, 47, 71, 122, 84, 73,
       40, 8, 104, 118, 113, 2, 120, 95, 126, 107, 35, 62, 73, 5, 60, 1, 42,
       73, 27, 82, 55, 116, 0, 119, 3, 58, 125, 110, 107, 60, 40, 47, 44, 62,
       37, 17, 102, 60, 53, 81, 5, 18, 11, 9, 65, 76, 18, 127, 42, 119, 42,
       127, 27, 86, 104, 100, 125, 97, 86, 75, 116, 69, 20, 60, 34, 96, 33,
       38, 85, 108, 6, 111, 86, 96, 48, 47, 19, 73, 92, 41, 43, 64, 104, 8, 5,
       0, 116, 34, 110, 26, 83, 127, 120, 56, 102, 64, 96, 114, 0, 71, 62, 15,
       33, 28, 22, 12, 54, 40, 121, 25, 90, 36, 76, 33, 111, 102, 15, 101,
       109, 95, 111, 34, 42, 14, 57, 60, 16, 27, 11, 122, 16, 90, 82, 58, 59,
       117, 95, 18, 21, 3, 16, 67, 107, 125, 66, 41, 100, 63, 84, 25, 34, 54,
       108, 75, 75, 0, 96, 3, 49, 119, 118, 115, 71, 32, 9, 109, 23, 62, 18,
       7, 69, 9, 89, 19, 52, 75, 49, 13, 65, 69, 81, 71, 63, 63, 34, 28, 23,
       22, 70, 41, 18, 65, 91, 44, 30, 111, 119, 123, 21, 29, 109, 117, 26,
       83, 22, 68, 82, 45, 5, 126, 65, 95, 4, 97, 86, 64, 64, 65, 104, 40, 70,
       49, 112, 87, 44, 97, 102, 15, 3, 22, 116, 15, 27, 99, 87, 98, 99, 56,
       73, 20, 109, 119, 55, 69, 26, 113, 41, 41, 58, 59, 14, 91, 36, 55, 44,
       7, 71, 78, 83, 5, 90, 87, 93, 63, 84, 85, 29, 25, 110, 27, 16, 48, 50,
       125, 15, 88, 50, 23, 65, 35, 118>>)
    @@
    (16 :> <<
       46, 60, 61, 36, 53, 29, 57, 0, 52, 109, 84, 91, 33, 30, 81, 28, 1, 37,
       38, 104, 42, 85, 18, 121, 95, 77, 39, 2, 101, 28, 122, 77, 32, 2, 114,
       19, 103, 77, 85, 80, 3, 59, 58, 76, 80, 90, 37, 126, 28, 100, 39, 46,
       33, 53, 100, 11, 44, 63, 54, 66, 82, 22, 121, 72, 37, 74, 5, 36, 124,
       10, 106, 127, 101, 0, 66, 47, 30, 62, 19, 39, 38, 40, 58, 58, 8, 21,
       89, 61, 93, 108, 1, 56, 107, 110, 62, 1, 117, 107, 60, 89, 101, 15, 58,
       106, 78, 10, 63, 83, 2, 123, 18, 90, 29, 117, 51, 114, 47, 4, 69, 5,
       84, 83, 51, 77, 40, 61, 65, 85, 121, 104, 100, 87, 83, 106, 104, 9, 29,
       40, 12, 90, 11, 69, 15, 31, 1, 50, 80, 5, 117, 107, 14, 94, 87, 6, 120,
       108, 97, 50, 19, 115, 81, 88, 32, 30, 22, 74, 1, 30, 67, 31, 117, 14,
       13, 82, 18, 34, 49, 52, 4, 51, 59, 113, 93, 59, 58, 33, 4, 7, 3, 90,
       25, 54, 85, 32, 118, 123, 64, 49, 13, 103, 27, 14, 53, 80, 13, 36, 14,
       58, 55, 18, 107, 51, 30, 16, 113, 16, 112, 51, 55, 64, 28, 50, 23, 46,
       85, 63, 105, 22, 110, 52, 26, 84, 54, 108, 2, 62, 38, 73, 37, 124, 15,
       108, 9, 96, 127, 100, 39, 94, 63, 30, 68, 82, 60, 26, 75, 56, 64, 17,
       62, 70, 10, 97, 80, 126, 85, 13, 92, 84, 40, 7, 59, 10, 103, 63, 93,
       96, 6, 65, 42, 68, 21, 12, 91, 46, 51, 36, 50, 8, 28, 24, 58, 26, 91,
       1, 80, 0, 28, 42, 50, 77, 79, 26, 7, 34, 115, 81, 2, 49, 80, 7, 18, 85,
       122, 68, 88, 121, 28, 26, 64, 100, 108, 80, 109, 69, 84, 105, 81, 92,
       95, 120, 117, 34, 65, 3, 78, 78, 102, 102, 65, 124, 27, 60, 74, 61, 44,
       17, 91, 58, 95, 91, 116, 22, 13, 24, 2, 11, 119, 47, 93, 36, 127, 83,
       104, 82, 122, 12, 19, 4, 23, 119, 78, 88, 97, 88, 15, 92, 121, 97, 29,
       44, 26, 72, 55, 11, 23, 119, 11, 59, 10, 113, 4, 73, 19, 19, 86, 92,
       99, 20, 98, 26, 53, 5, 96, 45, 14, 87, 110, 51, 52, 33, 15, 78, 49, 76,
       24, 45, 95, 56, 47, 55, 2, 44, 24, 105, 10, 27, 121, 49, 52, 113, 100,
       7, 75, 27, 52, 98, 93, 85, 70, 43, 5, 66, 127, 51, 44, 2, 83, 18, 53,
       30, 123, 41, 21, 51, 7, 48, 5, 111, 51, 81, 108, 95, 57, 83, 119, 4,
       18, 114, 123, 0, 21, 94, 113, 127, 24, 85, 74, 37, 78, 85, 124, 75, 52,
       122, 107, 3, 6, 15, 115, 105, 66, 104, 68, 0, 124, 16, 40, 77, 78, 10,
       75, 68, 38, 57, 18, 76, 54, 120, 36, 72, 78, 103, 52, 68, 10, 115, 88,
       99, 118, 18, 78, 5, 38, 33, 38, 83, 122, 89, 56, 117, 92, 40, 9, 115,
       104, 104, 114, 80, 33, 48, 39, 111, 83, 126, 121, 72, 100, 61, 2, 15,
       14, 42, 113, 127, 51, 34, 121, 110, 57, 37, 106, 100, 27, 34, 123, 1,
       60, 89, 0, 92, 25, 111, 10, 102, 53, 19, 122, 75, 124, 28, 118, 43, 52,
       73, 98, 13, 95, 124, 106, 34, 124, 113, 106, 101, 97, 1, 40, 124, 21,
       47, 53, 75, 37, 46, 96, 27, 20, 83, 25, 103, 93, 67, 5, 68, 10, 35, 0,
       90, 2, 70, 12, 108, 94, 107, 34, 24, 13, 15, 63, 63, 45, 2, 0, 113, 8,
       90, 32, 87, 53, 111, 15, 42, 53, 76, 61, 48, 118, 30, 77, 25, 39, 20,
       28, 84, 23, 22, 49, 94, 122, 45, 123, 9, 18, 3, 82, 26, 97, 18, 118,
       127, 97, 102, 81, 52, 11, 89, 33, 120, 120, 105, 116, 37, 113, 54, 43,
       89, 100, 41, 100, 121, 50, 25, 42, 31, 58, 3, 68, 125, 2, 44, 2, 56,
       127, 69, 52, 65, 52, 117, 75, 11, 67, 18, 89, 30, 68, 31, 2, 22, 5, 21,
       33, 28, 46, 62, 126, 4, 63, 125, 16, 107, 106, 31, 40, 60, 53, 121, 80,
       47, 92, 42, 31, 37, 52, 82, 1, 124, 119, 52, 112, 0, 104, 122, 26, 123,
       80, 82, 55, 81, 19, 0, 27, 112, 111, 122, 77, 116, 76, 84, 17, 3, 75,
       12, 114, 65, 25, 78, 30, 121, 119, 51, 35, 1, 58, 7, 117, 41, 94, 39,
       40, 88, 42, 99, 31, 30, 5, 124, 67, 36, 18, 90, 32, 41, 105, 44, 15,
       31, 10, 63, 6, 38, 80, 127, 31, 110, 34, 50, 66, 19, 93, 36, 124, 65,
       7, 105, 44, 48, 1, 27, 45, 10, 85, 41, 43, 46, 54, 65, 39, 31, 125, 77,
       103, 14, 113, 24, 78, 92, 114, 77, 82, 112, 11, 75, 16, 111, 121, 54,
       70, 23, 94, 115, 71, 79, 114, 16, 25, 77, 20, 102, 27, 89, 93, 99, 76,
       59, 67, 31, 26, 18, 54, 79, 36, 4, 12, 29, 122, 100, 102, 89, 101, 83,
       47, 106, 107, 71, 103, 37, 29, 81, 122, 118, 103, 86, 7, 73, 13, 1, 11,
       84, 85, 12, 20, 115, 18, 126, 4, 49, 55, 46, 39, 29, 71, 20, 22, 43,
       89, 44, 80, 79, 50, 97, 123, 95, 75, 53, 69, 111, 30, 68, 38, 52, 91,
       19, 44, 91, 13, 121, 53, 48, 62, 45, 18, 48, 31, 54, 118, 73, 103, 105,
       55, 73, 97, 101, 82, 23, 25, 55, 70, 121, 8, 97, 77, 48, 68, 52, 13, 1,
       66, 78, 31, 59, 84, 40, 126, 45, 103, 58, 8, 120, 76, 98, 70, 89, 117,
       23, 36, 10, 12, 78, 47, 99, 43, 78, 107, 65, 113, 35, 76, 7, 97, 26,
       55, 13, 34, 123, 55, 30, 87, 69, 41, 9, 106, 54, 58, 118, 31, 117, 65,
       47, 110, 35, 46, 66, 40, 56, 65, 11, 121, 31, 101, 43, 92, 1, 31, 11,
       78, 125, 86, 56, 38, 114, 67, 45, 20, 84, 117, 47, 85, 78, 83, 98, 104,
       11, 97, 49, 43, 81, 78, 63, 16, 19, 87, 12, 47, 86, 67, 51, 106, 108,
       37, 79, 24, 4, 102, 42, 37, 73, 115, 101, 119, 32, 20, 44, 71, 96, 120,
       39, 83, 39, 81, 102, 17, 54, 55, 48, 103, 110, 0, 34, 91, 76, 39, 110,
       36, 95, 106, 57, 47, 98, 63, 112, 127, 118, 38, 71, 123, 42, 40, 103,
       75, 38, 6, 97, 125, 99, 59, 21, 63, 68, 123, 45, 53, 27, 2, 8, 43, 60,
       2, 34, 4, 87, 111, 62, 100, 109, 92, 62, 82, 46, 48, 31, 72, 111, 38,
       113, 80, 51, 99, 40, 48, 117, 34, 90, 42, 34, 27, 9, 117, 25, 106, 44,
       39, 22, 13, 127, 64, 1, 96, 53, 37, 92, 97, 62, 47, 47, 25, 25, 103,
       53, 91, 20, 49, 39, 90, 10, 39, 62, 97, 24, 83, 57, 72, 7, 39, 120, 80,
       68, 31, 56, 124, 7, 71, 49, 96, 93, 7, 75, 15, 64, 42, 9, 24, 25, 48,
       98, 77, 57, 98, 57, 14, 79, 85, 59, 15, 3, 96, 97, 109, 103, 90, 11,
       44, 78, 44, 35, 92, 109, 109, 99, 14, 62, 33, 11, 111, 31, 99, 55, 27,
       116, 19, 63, 6, 5, 36, 95, 108, 81, 72, 2, 21, 0, 20, 69, 12, 23, 49,
       50, 17, 46, 13, 109, 70, 66, 19, 10, 1, 9, 4, 126, 99, 76, 85, 6, 1,
       59, 122, 49, 110, 104, 1, 56, 113, 47, 0, 57, 27, 101, 15, 14, 70, 107,
       84, 117, 27, 4, 75, 50, 100, 34, 8, 109, 21, 72, 99, 127, 0, 79, 38,
       94, 34, 10, 75, 46, 1, 109, 0, 106, 77, 114, 92, 67, 6, 123, 78, 25,
       26, 104, 104, 17, 84, 79, 80, 72, 30, 55, 58, 32, 125, 117, 65, 115,
       85, 56, 97, 48, 36, 58, 39, 65, 124, 119, 90, 0, 22, 30, 67, 105, 40,
       57, 85, 32, 86, 33, 109, 82, 71, 84, 17, 48, 66, 13, 13, 63, 59, 89,
       53, 21, 46, 66, 31, 50, 21, 11, 34, 95, 84, 47, 21, 93, 61, 57, 122, 7,
       123, 117, 96, 39, 65, 46, 74, 23, 61, 104, 112, 44, 56, 58, 6, 97, 113,
       108, 28, 85, 116, 101, 113, 0, 36, 113, 32, 85, 110, 43, 114, 31, 62,
       87, 12, 100, 64, 94, 118, 88, 46, 81, 82, 111, 114, 4, 68, 57, 44, 16,
       75, 83, 36, 109, 106, 91, 27, 97, 98, 9, 67, 76, 28, 7, 115, 61, 120,
       61, 18, 127, 43, 117, 114, 1, 17, 100, 94, 8, 38, 12, 59, 84, 39, 127,
       5, 41, 63, 73, 117, 37, 26, 26, 90, 40, 14, 44, 114, 28, 2, 88, 30, 70,
       31, 2, 80, 76, 66, 54, 85, 34, 73, 78, 110, 25, 24, 77, 27, 47, 72, 42,
       99, 92, 56, 19, 116, 78, 31, 114, 112, 56, 64, 22, 92, 20, 125, 36,
       114, 107, 101, 97, 87, 100, 44, 23, 93, 92, 78, 24, 73, 96, 15, 70,
       113, 53, 103, 91, 120, 42, 60, 102, 43, 71, 75, 111, 115, 114, 47, 52,
       45, 109, 83, 81, 127, 40, 79, 108, 102, 22, 57, 127, 9, 109, 113, 57,
       61, 96, 84, 11, 36, 99, 105, 26, 19, 77, 69, 15, 116, 34, 95, 26, 8,
       58, 109, 7, 123, 14, 120, 94, 30, 107, 0, 39, 69, 54, 83, 79, 17, 2,
       62, 75, 6, 79, 12, 38, 117, 49, 78, 55, 35, 3, 73, 92, 18, 108, 45, 25,
       89, 102, 39, 107, 11, 102, 121, 41, 12, 102, 78, 101, 53, 111, 68, 70,
       94, 5, 33, 19, 56, 104, 41, 75, 55, 56, 80, 51, 54, 46, 100, 113, 85,
       41, 87, 54, 50, 22, 37, 98, 72, 89, 81, 28, 62, 81, 127, 25, 24, 39,
       67, 124, 124, 46, 34, 58, 94, 63, 90, 127, 116, 10, 49, 30, 39, 38, 94,
       117, 95, 89, 78, 59, 66, 65, 10, 122, 61, 34, 44, 107, 95, 60, 125, 7,
       64, 36, 105, 58, 48, 74, 53, 10, 84, 67, 23, 69, 59, 15, 6, 101, 44,
       26, 112, 78, 126, 57, 31, 97, 72, 9, 66, 117, 3, 122, 20, 115, 85, 23,
       16, 63, 112, 127, 117, 54, 34, 34, 3, 14, 9, 4, 10, 6, 114, 47, 80, 92,
       125, 20, 82, 72, 99, 15, 56, 16, 83, 58, 120, 87, 19, 36, 10, 3, 4, 73,
       48, 35, 37, 36, 38, 116, 53, 52, 67, 97, 59, 11, 39, 3, 112, 51, 23,
       77, 99, 61, 89, 60, 3, 113, 49, 83, 117, 59, 64, 82, 10, 1, 100, 5, 20,
       4, 67, 49, 95, 66, 0, 104, 125, 30, 9, 59, 1, 46, 34, 29, 3, 100, 83,
       62, 55, 125, 65, 22, 74, 18, 11, 126, 45, 62, 121, 114, 113, 109, 70,
       53, 63, 45, 104, 13, 116, 88, 4, 10, 53, 81, 127, 35, 96, 106, 83, 79,
       87, 70, 7, 44, 90, 30, 67, 7, 8, 55, 17, 25, 26, 45, 45, 46, 28, 62,
       83, 71, 90, 74, 103, 52, 76, 61, 76, 59, 64, 108, 88, 85, 92, 11, 9,
       48, 102, 82, 127, 33, 126, 53, 38, 1, 28, 68, 120, 100, 104, 16, 11,
       77, 67, 72, 78, 93, 9, 52, 123, 107, 27, 71, 112, 41, 25, 30, 3, 44,
       27, 33, 7, 17, 91, 22, 74, 107, 30, 6, 102, 124, 33, 35, 47, 22, 31, 3,
       69, 95, 119, 62, 101, 35, 106, 6, 109, 96, 87, 116, 32, 59, 69, 45, 54,
       61, 69, 73, 46, 81, 23, 64, 110, 105, 85, 45, 74, 63, 63, 31, 16, 57,
       62, 74, 5, 124, 55, 121, 45, 108, 64, 33, 81, 19, 19, 56, 14, 24, 17,
       103, 35, 60, 85, 105, 20, 94, 55, 91, 5, 46, 108, 17, 113, 15, 113, 63,
       106, 113, 12, 78, 56, 5, 36, 113, 46, 22, 72, 23, 113, 114, 105, 61,
       17, 62, 85, 53, 117, 96, 74, 67, 30, 59, 94, 63, 8, 95, 24, 60, 2, 4,
       43, 77, 57, 41, 90, 57, 31, 124, 8, 100, 70, 42, 12, 33, 95, 29, 72,
       73, 51, 23, 68, 72, 8, 91, 74, 71, 66, 38, 123, 83, 123, 77, 115, 94,
       5, 32, 29, 31, 126, 80, 116, 59, 123, 74, 86, 83, 21, 103, 46, 84, 48,
       28, 104, 16, 23, 125, 75, 85, 73, 12, 121, 106, 100, 77, 98, 82, 96,
       113, 58, 69, 48, 115, 65, 29, 26, 97, 119, 109, 3, 15, 71, 28, 119, 84,
       121, 34, 31, 58, 36, 89, 29, 97, 127, 89, 102, 81, 50, 38, 125, 41, 71,
       30, 37, 86, 82, 56, 76, 44, 111, 12, 36, 75, 124, 30, 98, 72, 31, 21,
       33, 80, 12, 95, 112, 106, 53, 117, 111, 76, 78, 75, 4, 102, 16, 8, 86,
       46, 21, 14, 11, 118, 99, 6, 127, 12, 50, 4, 126, 50, 127, 58, 64, 115,
       71, 37, 33, 119, 123, 77, 118, 25, 93, 115, 45, 68, 39, 16, 2, 3, 119,
       95, 77, 28, 42, 30, 10, 127, 82, 46, 125, 58, 104, 33, 14, 9, 88, 42,
       2, 56, 123, 41, 93, 86, 56, 127, 78, 7, 60, 36, 65, 37, 75, 19, 115,
       70, 84, 89, 125, 1, 62, 116, 104, 53, 83, 61, 95, 66, 100, 49, 59, 92,
       110, 84, 47, 6, 5, 84, 0, 68, 122, 44, 46, 47, 42, 76, 125, 13, 10, 88,
       33, 48, 98, 102, 60, 64, 76, 6, 6, 12, 99, 63, 19, 111, 62, 60, 63, 30,
       125, 81, 42, 53, 32, 26, 52, 102, 58, 127, 88, 43, 82, 46, 122, 8, 54,
       127, 118, 0, 52, 41, 24, 22, 75, 76, 49, 39, 29, 57, 88, 34, 121, 27,
       43, 83, 118, 13, 91, 4, 35, 81, 1, 124, 56, 85, 115, 39, 72, 20, 57,
       19, 101, 85, 80, 32, 105, 56, 66, 73, 82, 97, 45, 43, 117, 58, 111, 61,
       25, 16, 50, 114, 1, 31, 2, 77, 115, 4, 105, 92, 108, 5, 41, 97, 37, 5,
       6, 48, 70, 71, 40, 113, 72, 44, 67, 59, 77, 123, 69, 20, 34, 74, 53,
       88, 25, 74, 92, 99, 27, 41, 27, 74, 122, 79, 121, 71, 122, 51, 55, 75,
       65, 77, 79, 67, 89, 7, 100, 37, 86, 68, 23, 30, 105, 95, 50, 103, 37,
       127, 38, 79, 4, 54, 101, 81, 82, 104, 95, 99, 83, 42, 12, 104, 9, 117,
       92, 25, 121, 10, 81, 72, 91, 93, 124, 73, 32, 115, 13, 37, 7, 87, 2,
       73, 13, 96, 27, 109, 114, 52, 111, 85, 69, 83, 8, 61, 58, 56, 117, 64,
       127, 123, 5, 55, 9, 76, 40, 111, 66, 35, 3, 52, 97, 15, 44, 75, 52,
       101, 24, 17, 104, 115, 47, 97, 31, 88, 44, 89, 113, 18, 115, 108, 68,
       83, 103, 1, 101, 72, 40, 61, 104, 125, 93, 96, 59, 11, 43, 25, 69, 100,
       74, 6, 79, 116, 27, 86, 110, 88, 13, 58, 14, 81, 125, 9, 3, 9, 74, 64,
       66, 58, 82, 8, 101, 115, 90, 33, 111, 31, 9, 92, 40, 78, 84, 85, 63,
       111, 11, 71, 90, 115, 101, 92, 2, 87, 6, 56, 23, 7, 118, 26, 89, 14, 5,
       44, 104, 5, 103, 109, 111, 23, 58, 9, 104, 70, 103, 50, 55, 37, 96, 99,
       13, 96, 109, 102, 22, 22, 106, 83, 107, 8, 49, 96, 111, 66, 115, 96,
       116, 16, 117, 116, 114, 32, 126, 75, 40, 84, 18, 1, 90, 49, 49, 74, 52,
       44, 112, 112, 127, 7, 30, 57, 14, 116, 116, 1, 104, 16, 47, 2, 68, 90,
       118, 6, 52, 102, 10, 68, 66, 45, 87, 127, 124, 20, 29, 65, 51, 123, 69,
       113, 31, 120, 6, 123, 112, 120, 83, 14, 121, 80, 25, 33, 120, 33, 110,
       46, 72, 120, 51, 17, 26, 91, 34, 13, 22, 58, 116, 120, 59, 86, 100, 93,
       23, 49, 48, 90, 11, 123, 120, 44, 22, 56, 100, 15, 127, 38, 122, 48,
       13, 126, 29, 118, 43, 12, 2, 48, 86, 64, 34, 14, 77, 122, 112, 113, 22,
       0, 38, 87, 31, 69, 34, 109, 49, 29, 89, 99, 93, 51, 94, 2, 117, 108, 5,
       63, 59, 11, 25, 52, 80, 28, 98, 29, 17, 81, 85, 30, 81, 96, 77, 51,
       112, 62, 1, 63, 36, 31, 49, 70, 19, 58, 85, 48, 120, 53, 23, 31, 109,
       113, 115, 61, 126, 51, 118, 23, 41, 56, 4, 11, 89, 126, 109, 16, 81,
       91, 40, 58, 42, 125, 68, 51, 5, 66, 127, 69, 83, 102, 114, 118, 119,
       65, 99, 113, 59, 103, 104, 110, 105, 48, 74, 80, 47, 47, 113, 99, 11,
       42, 67, 117, 62, 105, 93, 79, 75, 9, 109, 74, 63, 75, 18, 40, 118, 68,
       81, 30, 121, 42, 41, 5, 1, 23, 59, 118, 74, 35, 107, 82, 60, 17, 10,
       118, 108, 33, 109, 107, 7, 116, 122, 88, 78, 14, 13, 22, 123, 4, 18,
       109, 106, 42, 76, 6, 120, 84, 77, 109, 114, 126, 110, 77, 81, 70, 116,
       127, 77, 76, 50, 109, 91, 24, 1, 123, 81, 47, 50, 69, 33, 20, 28, 86,
       86, 84, 76, 26, 46, 77, 4, 42, 5, 19, 114, 80, 33, 20, 94, 94, 74, 106,
       65, 101, 15, 99, 73, 22, 3, 127, 49, 112, 87, 121, 60, 49, 25, 27>>)
    @@
    (17 :> <<
       66, 53, 103, 38, 122, 46, 37, 22, 98, 90, 90, 69, 84, 35, 14, 117, 3,
       31, 49, 104, 95, 53, 32, 110, 64, 102, 40, 81, 108, 87, 120, 92, 51,
       17, 127, 70, 7, 17, 104, 101, 112, 25, 19, 112, 90, 68, 71, 102, 122,
       87, 26, 42, 69, 15, 112, 91, 81, 8, 39, 52, 10, 64, 120, 109, 60, 81,
       127, 76, 18, 87, 103, 52, 104, 64, 117, 43, 2, 55, 47, 73, 6, 114, 96,
       94, 45, 6, 122, 61, 47, 74, 99, 0, 111, 51, 30, 14, 71, 27, 122, 31,
       67, 122, 46, 7, 34, 8, 100, 35, 24, 95, 77, 106, 71, 68, 70, 115, 16,
       32, 84, 39, 117, 44, 40, 21, 42, 12, 116, 73, 74, 100, 34, 42, 1, 6,
       96, 126, 44, 2, 59, 95, 34, 60, 81, 6, 93, 25, 39, 33, 9, 95, 126, 91,
       116, 62, 2, 79, 72, 67, 87, 17, 51, 62, 93, 121, 122, 125, 75, 104, 50,
       23, 25, 127, 32, 122, 19, 86, 14, 116, 27, 6, 107, 124, 68, 39, 103,
       113, 117, 40, 103, 40, 6, 20, 118, 53, 11, 88, 98, 39, 107, 32, 84,
       127, 51, 61, 9, 69, 10, 69, 81, 125, 30, 28, 68, 122, 33, 73, 20, 102,
       37, 6, 92, 113, 62, 75, 50, 105, 62, 28, 70, 52, 66, 80, 56, 9, 123,
       58, 96, 27, 29, 61, 40, 104, 24, 124, 46, 76, 3, 123, 95, 73, 72, 66,
       54, 6, 114, 106, 42, 123, 74, 21, 119, 123, 71, 29, 78, 40, 47, 22,
       127, 124, 96, 27, 38, 55, 45, 57, 75, 11, 66, 13, 66, 1, 24, 120, 73,
       115, 90, 70, 97, 22, 57, 59, 57, 109, 64, 17, 68, 70, 60, 57, 1, 37,
       33, 23, 126, 1, 105, 115, 59, 43, 96, 42, 27, 6, 34, 12, 66, 85, 89, 1,
       3, 14, 60, 90, 115, 38, 78, 26, 127, 99, 12, 99, 116, 104, 107, 126, 3,
       58, 68, 105, 97, 118, 28, 111, 83, 3, 108, 51, 101, 15, 54, 122, 7, 94,
       69, 7, 24, 124, 68, 33, 34, 45, 44, 120, 69, 74, 104, 127, 124, 53, 51,
       116, 0, 67, 96, 127, 43, 10, 96, 95, 106, 101, 4, 80, 93, 110, 36, 41,
       41, 15, 42, 16, 68, 107, 31, 118, 63, 105, 36, 56, 15, 32, 31, 9, 87,
       53, 39, 87, 25, 61, 46, 16, 27, 64, 126, 124, 100, 73, 19, 100, 37, 10,
       55, 56, 67, 114, 49, 99, 66, 77, 97, 115, 19, 84, 71, 18, 21, 75, 68,
       119, 40, 63, 102, 111, 112, 36, 122, 119, 52, 8, 78, 30, 21, 115, 91,
       19, 99, 30, 54, 70, 41, 69, 97, 56, 96, 64, 102, 16, 36, 120, 31, 63,
       32, 64, 24, 47, 0, 81, 15, 42, 63, 9, 55, 11, 113, 65, 48, 31, 21, 9,
       119, 37, 9, 36, 43, 116, 97, 59, 41, 19, 123, 19, 95, 34, 39, 49, 110,
       41, 117, 73, 65, 80, 18, 55, 13, 121, 104, 96, 113, 125, 83, 80, 99,
       114, 101, 32, 30, 27, 27, 69, 111, 47, 107, 93, 55, 48, 34, 120, 10,
       39, 51, 124, 116, 82, 26, 112, 40, 1, 4, 111, 72, 74, 7, 45, 86, 83,
       62, 51, 54, 78, 33, 88, 38, 57, 114, 98, 120, 20, 96, 53, 27, 24, 26,
       109, 46, 94, 112, 90, 120, 25, 29, 97, 81, 107, 48, 9, 58, 84, 25, 45,
       92, 64, 100, 16, 120, 74, 61, 94, 56, 104, 82, 11, 16, 30, 112, 55, 98,
       50, 29, 87, 51, 48, 62, 42, 109, 111, 88, 101, 30, 41, 121, 49, 119,
       27, 109, 22, 63, 1, 60, 12, 52, 111, 125, 83, 61, 12, 122, 127, 23, 63,
       3, 33, 60, 16, 25, 20, 32, 18, 4, 109, 15, 37, 56, 6, 11, 115, 37, 108,
       78, 82, 33, 68, 39, 82, 48, 66, 33, 103, 72, 4, 99, 82, 3, 90, 68, 36,
       68, 78, 117, 9, 90, 7, 35, 37, 78, 44, 115, 61, 121, 27, 98, 64, 13, 5,
       47, 47, 61, 57, 42, 102, 97, 127, 63, 46, 125, 28, 1, 76, 103, 101, 14,
       44, 66, 100, 19, 108, 48, 14, 78, 71, 122, 10, 5, 91, 50, 120, 14, 86,
       95, 59, 18, 83, 25, 70, 103, 56, 6, 86, 113, 107, 34, 2, 127, 75, 13,
       98, 12, 17, 60, 28, 39, 101, 82, 38, 38, 77, 42, 70, 2, 55, 11, 49, 0,
       81, 59, 13, 112, 41, 68, 96, 41, 94, 58, 118, 98, 7, 111, 62, 11, 68,
       82, 59, 38, 77, 118, 15, 92, 110, 75, 106, 85, 19, 97, 122, 9, 86, 41,
       87, 4, 109, 19, 107, 118, 121, 73, 86, 25, 111, 37, 95, 53, 101, 10,
       13, 104, 97, 48, 102, 7, 62, 65, 52, 52, 102, 97, 86, 33, 73, 30, 72,
       64, 94, 51, 77, 16, 98, 94, 28, 110, 42, 106, 29, 84, 40, 60, 40, 101,
       119, 27, 79, 12, 106, 26, 96, 67, 59, 26, 56, 55, 46, 104, 55, 79, 6,
       25, 122, 15, 31, 0, 33, 6, 113, 33, 111, 91, 46, 106, 54, 49, 90, 5,
       68, 71, 66, 121, 98, 1, 3, 80, 69, 127, 96, 41, 89, 75, 41, 103, 100,
       85, 113, 22, 125, 100, 45, 74, 77, 84, 40, 76, 30, 105, 34, 73, 56,
       118, 57, 14, 16, 3, 114, 17, 58, 64, 19, 91, 56, 117, 75, 0, 113, 0,
       22, 48, 48, 84, 89, 51, 12, 35, 24, 25, 18, 91, 2, 77, 120, 121, 59,
       41, 19, 60, 28, 123, 54, 89, 46, 33, 90, 93, 114, 57, 60, 11, 22, 13,
       31, 63, 31, 39, 13, 33, 66, 92, 74, 32, 41, 57, 33, 65, 50, 1, 57, 102,
       114, 34, 95, 20, 122, 65, 27, 27, 13, 4, 45, 14, 91, 5, 24, 45, 98, 41,
       29, 26, 64, 22, 20, 108, 118, 73, 125, 77, 79, 1, 62, 118, 109, 4, 91,
       97, 104, 83, 58, 52, 53, 42, 66, 69, 59, 74, 113, 107, 127, 7, 3, 11,
       8, 79, 21, 36, 97, 74, 103, 48, 83, 4, 19, 105, 36, 23, 103, 42, 106,
       95, 20, 116, 93, 109, 43, 118, 124, 40, 62, 29, 72, 58, 123, 105, 37,
       83, 94, 80, 126, 90, 53, 27, 21, 72, 76, 54, 116, 112, 119, 39, 59, 69,
       39, 80, 7, 90, 98, 100, 67, 95, 42, 17, 123, 123, 41, 4, 0, 93, 123,
       38, 100, 12, 10, 46, 75, 14, 64, 27, 117, 123, 11, 103, 96, 47, 20, 63,
       108, 76, 60, 40, 118, 17, 104, 56, 105, 108, 60, 122, 27, 77, 28, 102,
       117, 53, 3, 100, 30, 103, 70, 115, 105, 24, 98, 67, 82, 9, 52, 74, 31,
       60, 35, 75, 37, 68, 22, 43, 57, 18, 84, 41, 123, 99, 33, 35, 8, 123,
       92, 107, 60, 33, 116, 57, 49, 102, 86, 1, 66, 98, 20, 52, 126, 86, 43,
       1, 27, 83, 95, 7, 61, 36, 15, 78, 103, 81, 81, 46, 116, 33, 65, 46, 89,
       38, 88, 29, 4, 31, 3, 63, 9, 96, 54, 105, 4, 50, 83, 120, 93, 44, 110,
       106, 78, 104, 28, 96, 123, 116, 115, 77, 82, 112, 33, 34, 117, 64, 36,
       72, 119, 68, 104, 7, 0, 32, 121, 80, 103, 46, 1, 89, 74, 93, 28, 70,
       105, 16, 86, 57, 4, 118, 107, 40, 103, 11, 78, 98, 76, 47, 4, 25, 38,
       65, 102, 117, 32, 71, 93, 27, 65, 1, 47, 54, 12, 33, 98, 123, 95, 113,
       85, 125, 92, 116, 73, 35, 126, 81, 119, 70, 64, 68, 48, 69, 74, 27, 78,
       19, 38, 7, 72, 88, 117, 21, 58, 110, 78, 83, 110, 39, 14, 114, 21, 11,
       6, 25, 25, 101, 29, 47, 66, 116, 36, 63, 121, 0, 8, 119, 55, 126, 68,
       57, 74, 91, 89, 87, 21, 12, 83, 96, 42, 62, 50, 88, 67, 0, 66, 52, 58,
       25, 78, 118, 102, 3, 14, 3, 34, 41, 78, 104, 100, 24, 23, 87, 112, 100,
       73, 76, 25, 49, 91, 95, 126, 15, 106, 34, 107, 110, 85, 27, 25, 33,
       122, 17, 46, 68, 123, 118, 85, 18, 117, 65, 39, 114, 10, 11, 80, 61,
       115, 38, 80, 70, 52, 120, 53, 119, 121, 42, 75, 25, 114, 65, 89, 120,
       31, 30, 38, 34, 122, 49, 125, 120, 124, 38, 21, 24, 77, 51, 81, 69, 43,
       28, 34, 99, 2, 24, 43, 67, 99, 45, 86, 113, 110, 124, 37, 59, 47, 51,
       67, 51, 35, 80, 114, 20, 27, 4, 79, 33, 73, 72, 52, 44, 30, 20, 41, 70,
       101, 123, 61, 120, 6, 31, 22, 24, 121, 87, 27, 110, 12, 15, 111, 66,
       54, 40, 91, 123, 87, 121, 7, 31, 16, 122, 65, 18, 44, 32, 2, 120, 27,
       44, 111, 122, 53, 74, 90, 80, 11, 117, 98, 93, 32, 41, 10, 53, 107, 44,
       47, 30, 27, 41, 18, 90, 60, 55, 4, 7, 21, 104, 53, 85, 6, 117, 7, 73,
       8, 43, 67, 102, 52, 89, 21, 74, 115, 77, 124, 47, 45, 35, 121, 4, 3,
       55, 62, 65, 82, 22, 3, 119, 116, 117, 87, 41, 28, 17, 78, 10, 21, 80,
       64, 97, 7, 54, 60, 100, 77, 31, 6, 42, 9, 29, 3, 2, 80, 0, 116, 113,
       75, 18, 73, 11, 43, 82, 26, 41, 106, 69, 94, 3, 123, 7, 121, 61, 76,
       122, 16, 22, 108, 18, 109, 98, 54, 96, 8, 65, 7, 93, 87, 43, 103, 29,
       105, 41, 25, 35, 111, 73, 62, 96, 81, 103, 71, 84, 83, 24, 70, 90, 27,
       31, 57, 17, 17, 54, 58, 127, 63, 51, 12, 86, 88, 99, 12, 81, 50, 21,
       91, 83, 78, 87, 98, 34, 37, 15, 86, 7, 25, 89, 20, 117, 66, 2, 109, 52,
       20, 101, 23, 109, 17, 98, 102, 20, 47, 45, 99, 7, 39, 49, 80, 95, 117,
       33, 4, 124, 81, 33, 73, 63, 38, 69, 23, 66, 90, 91, 31, 65, 10, 103, 4,
       74, 73, 122, 66, 107, 35, 113, 120, 120, 45, 83, 63, 54, 52, 23, 7, 31,
       102, 63, 111, 97, 5, 61, 33, 6, 10, 36, 71, 69, 48, 22, 121, 113, 83,
       39, 7, 14, 116, 117, 68, 58, 110, 26, 92, 11, 67, 67, 55, 119, 33, 40,
       1, 46, 45, 110, 62, 82, 69, 99, 89, 0, 103, 110, 39, 126, 54, 49, 78,
       103, 38, 15, 20, 32, 95, 117, 64, 28, 29, 48, 64, 40, 16, 18, 40, 115,
       112, 10, 120, 121, 10, 43, 21, 84, 19, 43, 67, 37, 54, 76, 87, 119, 25,
       81, 127, 26, 48, 78, 98, 86, 12, 125, 107, 50, 0, 116, 62, 59, 114,
       126, 109, 70, 117, 35, 114, 91, 51, 117, 63, 18, 98, 48, 38, 60, 40,
       117, 6, 116, 38, 31, 27, 82, 98, 83, 68, 72, 101, 6, 11, 53, 55, 116,
       52, 34, 68, 120, 25, 98, 35, 50, 108, 29, 55, 26, 69, 111, 28, 78, 65,
       105, 73, 53, 19, 81, 119, 41, 25, 20, 87, 58, 112, 25, 7, 60, 87, 44,
       85, 22, 108, 39, 82, 114, 36, 112, 72, 111, 42, 27, 115, 58, 117, 85,
       4, 21, 73, 49, 57, 98, 36, 122, 108, 18, 28, 64, 40, 63, 109, 55, 118,
       112, 25, 1, 34, 104, 87, 106, 120, 48, 111, 96, 38, 99, 2, 53, 106, 16,
       36, 29, 82, 120, 116, 45, 109, 100, 24, 10, 103, 102, 76, 34, 73, 84,
       59, 37, 107, 93, 99, 89, 84, 126, 84, 25, 65, 53, 55, 114, 3, 80, 37,
       12, 40, 12, 2, 75, 89, 17, 59, 9, 31, 57, 46, 37, 75, 60, 63, 61, 14,
       84, 8, 20, 6, 118, 125, 10, 11, 102, 47, 52, 99, 59, 11, 74, 124, 50,
       33, 59, 38, 124, 78, 76, 124, 70, 35, 33, 61, 120, 12, 85, 45, 39, 55,
       123, 53, 33, 40, 121, 13, 121, 4, 103, 80, 36, 118, 121, 66, 64, 105,
       1, 17, 59, 57, 68, 1, 52, 56, 0, 85, 20, 66, 28, 29, 42, 71, 33, 84,
       75, 121, 101, 45, 75, 99, 65, 111, 29, 60, 55, 104, 40, 41, 51, 21, 36,
       2, 124, 88, 69, 6, 52, 62, 117, 118, 76, 90, 109, 108, 103, 34, 123,
       118, 34, 57, 85, 120, 114, 28, 50, 32, 114, 40, 8, 54, 10, 110, 26,
       103, 42, 68, 30, 25, 33, 76, 67, 55, 75, 78, 39, 124, 114, 12, 126,
       114, 124, 99, 92, 66, 122, 28, 95, 50, 119, 6, 62, 102, 124, 125, 2,
       66, 91, 125, 87, 126, 15, 51, 104, 0, 47, 116, 116, 125, 126, 81, 56,
       75, 126, 104, 20, 3, 28, 82, 110, 119, 97, 106, 38, 2, 53, 62, 54, 74,
       92, 80, 4, 60, 72, 54, 87, 61, 92, 102, 8, 38, 31, 84, 30, 0, 55, 17,
       86, 105, 67, 46, 46, 91, 53, 115, 106, 74, 123, 79, 96, 53, 37, 7, 7,
       86, 79, 57, 2, 36, 29, 28, 14, 9, 29, 105, 3, 13, 7, 71, 122, 61, 115,
       52, 1, 103, 110, 49, 102, 32, 121, 54, 101, 20, 36, 37, 93, 5, 11, 69,
       73, 26, 104, 116, 8, 13, 21, 10, 119, 108, 57, 22, 24, 52, 48, 48, 43,
       97, 2, 4, 105, 5, 53, 117, 78, 87, 85, 78, 121, 83, 106, 11, 70, 75,
       47, 100, 78, 39, 28, 81, 20, 27, 90, 60, 121, 51, 113, 104, 11, 62, 92,
       67, 90, 68, 95, 26, 50, 10, 61, 106, 100, 17, 17, 115, 46, 28, 12, 82,
       79, 33, 37, 84, 96, 68, 4, 85, 115, 4, 63, 67, 53, 105, 9, 20, 37, 40,
       87, 59, 51, 111, 22, 95, 14, 99, 72, 102, 1, 100, 72, 81, 59, 31, 73,
       123, 13, 20, 106, 119, 19, 59, 91, 111, 89, 31, 109, 35, 76, 61, 80,
       19, 79, 10, 43, 111, 31, 59, 30, 39, 109, 77, 68, 39, 60, 105, 124, 52,
       98, 85, 85, 55, 85, 69, 24, 94, 71, 117, 26, 97, 100, 45, 72, 3, 30,
       106, 49, 91, 125, 81, 111, 112, 63, 92, 34, 2, 28, 75, 67, 24, 13, 46,
       71, 70, 65, 101, 59, 74, 101, 100, 48, 25, 103, 103, 31, 100, 99, 21,
       59, 43, 55, 112, 48, 97, 23, 55, 44, 39, 2, 66, 50, 9, 74, 119, 21, 32,
       45, 67, 31, 70, 17, 63, 127, 34, 124, 102, 95, 53, 39, 109, 123, 84,
       26, 116, 48, 127, 3, 98, 126, 64, 19, 18, 113, 55, 102, 23, 97, 16,
       114, 79, 122, 17, 64, 83, 89, 7, 62, 2, 45, 113, 47, 96, 110, 85, 108,
       85, 38, 93, 53, 39, 65, 76, 50, 90, 22, 80, 73, 19, 1, 116, 127, 98,
       36, 58, 85, 22, 62, 53, 93, 45, 107, 48, 10, 5, 18, 75, 120, 14, 114,
       109, 34, 67, 81, 11, 23, 98, 56, 99, 64, 105, 93, 11, 49, 47, 66, 22,
       45, 58, 37, 89, 7, 103, 46, 92, 97, 33, 119, 9, 46, 5, 106, 85, 16, 47,
       83, 120, 106, 63, 104, 45, 122, 115, 115, 27, 107, 27, 22, 40, 87, 0,
       99, 105, 94, 20, 87, 41, 114, 100, 24, 30, 122, 65, 120, 84, 44, 8, 43,
       27, 80, 108, 66, 46, 4, 124, 107, 126, 46, 28, 79, 41, 94, 84, 125, 63,
       48, 93, 79, 44, 117, 105, 89, 66, 38, 62, 31, 13, 78, 0, 82, 31, 52,
       34, 96, 13, 9, 42, 73, 12, 117, 18, 55, 26, 35, 7, 94, 102, 68, 91, 27,
       44, 34, 2, 35, 96, 19, 109, 18, 1, 40, 31, 124, 30, 62, 65, 3, 0, 77,
       44, 90, 59, 69, 109, 53, 50, 2, 8, 95, 70, 37, 29, 88, 25, 91, 76, 82,
       102, 74, 77, 89, 99, 9, 82, 58, 60, 121, 94, 24, 97, 95, 78, 4, 110,
       13, 68, 1, 88, 114, 13, 83, 127, 110, 39, 55, 32, 62, 118, 127, 109,
       77, 66, 54, 19, 45, 108, 9, 85, 69, 79, 10, 70, 65, 50, 62, 25, 70, 95,
       89, 1, 23, 62, 11, 86, 43, 45, 108, 80, 54, 76, 91, 1, 31, 72, 108,
       114, 67, 93, 86, 8, 73, 98, 21, 124, 32, 5, 22, 10, 80, 81, 10, 20, 57,
       118, 116, 74, 98, 88, 14, 16, 57, 80, 110, 100, 123, 29, 126, 103, 36,
       105, 74, 108, 114, 80, 12, 46, 45, 125, 83, 36, 81, 51, 62, 16, 67, 59,
       1, 38, 7, 60, 26, 85, 5, 10, 54, 49, 116, 117, 118, 54, 25, 68, 35, 5,
       72, 126, 93, 85, 55, 75, 20, 14, 71, 109, 100, 90, 30, 91, 102, 20, 55,
       115, 127, 19, 20, 94, 49, 95, 27, 111, 10, 118, 80, 109, 53, 26, 117,
       106, 104, 54, 1, 86, 59, 69, 94, 38, 16, 2, 88, 78, 33, 57, 90, 121,
       73, 20, 0, 108, 92, 97, 16, 15, 115, 69, 85, 107, 5, 30, 3, 100, 31,
       104, 79, 92, 30, 127, 94, 8, 5, 6, 40, 6, 16, 15, 90, 3, 99, 46, 31,
       28, 58, 16, 91, 97, 104, 110, 21, 94, 24, 68, 62, 72, 4, 37, 101, 29,
       21, 116, 87, 59, 60, 61, 92, 15, 39, 88, 63, 29, 2, 103, 113, 29, 89,
       57, 9, 89, 60, 1, 56, 90, 69, 94, 48, 103, 37, 0, 36, 117, 104, 95, 88,
       92, 100, 18, 62, 41, 121, 82, 67, 55, 109, 61, 75, 63, 73, 15, 82, 41,
       107, 14, 59, 55, 4, 51, 108, 23, 8, 122, 42, 5>>)
    @@
    (18 :> <<
       23, 15, 84, 57, 42, 30, 25, 121, 62, 80, 63, 23, 61, 37, 58, 113, 33,
       25, 32, 115, 88, 15, 41, 66, 86, 97, 100, 22, 110, 123, 120, 103, 30,
       21, 30, 25, 94, 46, 73, 64, 25, 103, 86, 114, 111, 96, 106, 63, 27, 91,
       38, 33, 0, 43, 124, 51, 28, 98, 93, 51, 68, 44, 75, 73, 67, 34, 105,
       34, 76, 90, 38, 70, 14, 36, 61, 72, 118, 64, 18, 63, 87, 101, 80, 101,
       20, 24, 26, 82, 87, 103, 55, 16, 52, 65, 61, 73, 12, 116, 90, 25, 75,
       33, 68, 108, 43, 101, 103, 106, 105, 84, 69, 60, 11, 62, 18, 61, 19,
       62, 10, 31, 82, 11, 69, 45, 26, 119, 116, 100, 80, 50, 101, 74, 104,
       68, 87, 97, 67, 0, 126, 126, 17, 98, 88, 108, 113, 11, 61, 51, 104, 51,
       23, 49, 53, 16, 34, 90, 50, 87, 89, 46, 18, 42, 43, 93, 108, 78, 38,
       116, 16, 55, 127, 89, 69, 110, 2, 115, 73, 54, 18, 98, 20, 78, 94, 103,
       83, 114, 54, 0, 65, 71, 71, 105, 58, 70, 12, 1, 98, 77, 98, 32, 54, 95,
       51, 61, 78, 71, 60, 111, 53, 107, 112, 107, 115, 101, 19, 28, 22, 109,
       100, 22, 122, 47, 93, 80, 38, 63, 7, 99, 105, 11, 119, 45, 97, 69, 94,
       22, 124, 109, 67, 19, 119, 27, 33, 121, 9, 20, 107, 73, 89, 127, 101,
       29, 16, 118, 38, 13, 75, 47, 8, 45, 42, 11, 77, 34, 119, 44, 92, 21,
       50, 89, 52, 106, 65, 52, 94, 66, 127, 90, 1, 34, 118, 55, 102, 95, 5,
       72, 32, 51, 35, 11, 27, 36, 20, 47, 17, 88, 86, 82, 56, 11, 13, 96,
       107, 41, 106, 87, 33, 99, 106, 71, 99, 59, 67, 73, 11, 28, 90, 9, 111,
       59, 113, 99, 121, 40, 20, 97, 124, 92, 11, 28, 46, 110, 68, 118, 81,
       62, 67, 98, 116, 64, 99, 48, 109, 51, 86, 39, 58, 96, 2, 65, 82, 118,
       119, 106, 24, 84, 127, 26, 2, 10, 50, 84, 96, 46, 91, 8, 73, 1, 35, 27,
       31, 68, 17, 91, 82, 40, 2, 120, 16, 29, 91, 90, 57, 35, 2, 67, 54, 86,
       118, 95, 65, 21, 34, 53, 17, 114, 63, 78, 31, 78, 35, 60, 7, 67, 77,
       90, 101, 44, 64, 7, 78, 58, 37, 102, 127, 88, 36, 90, 117, 79, 1, 24,
       84, 81, 111, 66, 72, 113, 27, 2, 21, 124, 126, 38, 127, 107, 30, 24,
       52, 8, 106, 70, 111, 22, 3, 58, 69, 80, 31, 58, 10, 94, 88, 106, 62,
       61, 26, 24, 97, 56, 41, 81, 33, 55, 38, 17, 25, 48, 107, 80, 42, 94,
       119, 89, 87, 70, 68, 33, 114, 126, 47, 27, 4, 84, 83, 95, 8, 79, 118,
       116, 124, 18, 50, 8, 11, 63, 122, 124, 33, 44, 123, 27, 61, 8, 113, 9,
       111, 46, 19, 43, 42, 1, 55, 44, 25, 4, 118, 36, 26, 104, 30, 120, 23,
       78, 19, 44, 104, 80, 25, 2, 75, 4, 16, 71, 103, 121, 100, 41, 120, 19,
       7, 30, 85, 101, 93, 20, 43, 38, 88, 70, 41, 99, 74, 41, 109, 66, 105,
       74, 42, 110, 33, 36, 121, 45, 29, 126, 60, 47, 53, 53, 46, 103, 68,
       100, 14, 35, 59, 19, 86, 118, 108, 26, 62, 46, 29, 59, 36, 103, 24, 61,
       18, 33, 39, 113, 49, 88, 120, 44, 96, 33, 117, 107, 62, 39, 24, 37, 73,
       2, 89, 49, 127, 87, 29, 96, 97, 86, 122, 91, 50, 5, 66, 76, 13, 109,
       85, 45, 7, 98, 99, 50, 96, 54, 106, 97, 108, 114, 8, 53, 112, 78, 90,
       86, 121, 116, 115, 45, 61, 44, 109, 71, 25, 127, 124, 119, 86, 54, 103,
       38, 69, 50, 73, 115, 31, 91, 102, 96, 67, 10, 28, 8, 96, 96, 74, 65,
       54, 43, 103, 33, 54, 45, 86, 40, 69, 112, 46, 73, 45, 91, 75, 84, 23,
       36, 22, 4, 40, 2, 91, 108, 24, 49, 98, 31, 41, 71, 120, 62, 13, 60,
       109, 38, 105, 41, 106, 18, 80, 10, 38, 28, 122, 34, 28, 112, 89, 52,
       52, 26, 8, 15, 53, 40, 40, 43, 100, 79, 26, 92, 105, 112, 3, 114, 11,
       100, 79, 86, 118, 71, 78, 73, 20, 21, 116, 121, 86, 1, 0, 70, 16, 125,
       49, 107, 67, 15, 72, 17, 107, 65, 78, 26, 122, 52, 51, 28, 43, 17, 84,
       74, 115, 49, 55, 124, 6, 69, 48, 111, 26, 63, 114, 89, 41, 116, 58, 87,
       79, 59, 7, 52, 11, 5, 66, 76, 32, 20, 7, 86, 95, 119, 94, 34, 78, 112,
       16, 83, 104, 43, 127, 81, 14, 3, 87, 105, 6, 3, 14, 38, 42, 34, 123,
       38, 58, 123, 69, 18, 113, 43, 50, 105, 37, 95, 10, 8, 29, 67, 78, 53,
       113, 8, 126, 16, 33, 122, 85, 67, 40, 31, 71, 5, 2, 65, 119, 109, 99,
       76, 96, 57, 81, 14, 48, 43, 107, 9, 64, 54, 84, 15, 34, 80, 23, 86, 91,
       6, 40, 101, 5, 69, 38, 26, 53, 22, 24, 102, 17, 120, 91, 60, 59, 79,
       64, 30, 91, 127, 6, 19, 66, 44, 126, 46, 35, 123, 89, 64, 22, 78, 48,
       122, 57, 67, 27, 46, 30, 83, 42, 77, 60, 92, 49, 44, 63, 107, 31, 54,
       69, 49, 98, 18, 60, 2, 46, 20, 105, 70, 80, 26, 63, 59, 39, 54, 122,
       30, 14, 101, 118, 125, 39, 90, 117, 0, 5, 100, 88, 11, 61, 31, 78, 55,
       11, 86, 48, 65, 46, 5, 71, 120, 91, 122, 121, 97, 37, 108, 5, 42, 23,
       44, 117, 30, 70, 12, 85, 16, 127, 85, 101, 76, 75, 75, 99, 115, 21,
       112, 105, 30, 22, 43, 112, 5, 108, 55, 72, 106, 35, 50, 16, 117, 62,
       123, 27, 83, 47, 19, 19, 109, 10, 32, 101, 120, 100, 54, 75, 23, 79,
       47, 104, 32, 76, 49, 81, 72, 7, 25, 9, 32, 88, 60, 69, 66, 36, 116,
       103, 99, 59, 53, 74, 58, 122, 54, 57, 22, 114, 87, 63, 69, 85, 63, 95,
       108, 65, 44, 68, 5, 110, 22, 97, 71, 78, 23, 91, 47, 33, 89, 71, 5,
       107, 60, 92, 24, 118, 18, 6, 124, 21, 103, 28, 91, 121, 11, 115, 98,
       34, 21, 8, 3, 42, 30, 106, 84, 107, 106, 79, 60, 120, 31, 98, 60, 1,
       118, 22, 124, 106, 19, 97, 38, 111, 51, 75, 0, 117, 123, 0, 111, 48,
       54, 4, 107, 125, 25, 111, 45, 83, 75, 70, 109, 67, 103, 74, 113, 36,
       55, 14, 27, 108, 67, 106, 39, 34, 113, 54, 113, 52, 35, 97, 32, 43, 15,
       86, 4, 15, 5, 117, 70, 85, 103, 48, 7, 65, 74, 87, 104, 71, 87, 16, 42,
       20, 15, 13, 93, 80, 127, 127, 93, 14, 1, 110, 0, 98, 78, 32, 125, 59,
       58, 10, 12, 104, 23, 59, 0, 106, 78, 54, 45, 55, 26, 69, 18, 100, 54,
       73, 87, 83, 108, 52, 47, 24, 95, 30, 74, 105, 38, 2, 19, 103, 66, 68,
       77, 45, 24, 58, 83, 52, 75, 92, 96, 93, 113, 118, 92, 61, 86, 81, 119,
       24, 4, 89, 64, 2, 66, 108, 43, 117, 36, 56, 103, 15, 50, 22, 65, 77, 2,
       1, 15, 40, 37, 0, 95, 8, 53, 13, 87, 118, 79, 98, 59, 58, 6, 89, 3, 14,
       105, 92, 117, 30, 120, 89, 72, 48, 2, 109, 71, 8, 17, 8, 83, 112, 80,
       106, 59, 43, 43, 16, 51, 68, 14, 64, 83, 51, 80, 106, 74, 11, 59, 49,
       23, 82, 47, 64, 65, 54, 10, 77, 27, 22, 29, 64, 7, 6, 18, 34, 55, 4,
       59, 36, 43, 5, 12, 127, 26, 120, 121, 4, 61, 17, 119, 118, 108, 121,
       114, 119, 79, 127, 106, 66, 126, 127, 94, 124, 3, 38, 9, 63, 46, 62,
       16, 123, 40, 80, 76, 42, 110, 100, 33, 43, 116, 77, 77, 39, 6, 55, 49,
       66, 124, 9, 8, 87, 70, 108, 37, 6, 41, 27, 38, 79, 38, 44, 117, 5, 100,
       37, 19, 26, 6, 122, 86, 99, 30, 11, 61, 59, 1, 111, 37, 49, 23, 32, 88,
       29, 34, 49, 54, 104, 30, 125, 83, 125, 1, 112, 120, 5, 14, 84, 45, 83,
       83, 16, 96, 4, 1, 61, 89, 39, 98, 111, 3, 88, 105, 48, 52, 100, 115, 2,
       67, 67, 80, 35, 100, 36, 98, 71, 23, 86, 112, 121, 11, 64, 66, 27, 58,
       117, 88, 106, 125, 110, 86, 68, 11, 0, 37, 97, 87, 11, 89, 59, 127, 26,
       18, 92, 61, 56, 77, 118, 82, 115, 41, 39, 72, 34, 32, 91, 72, 114, 94,
       120, 46, 64, 43, 36, 95, 27, 19, 98, 103, 41, 44, 106, 127, 123, 27,
       88, 120, 68, 109, 122, 63, 93, 85, 78, 41, 78, 16, 68, 118, 39, 97, 8,
       91, 81, 55, 8, 59, 55, 123, 47, 25, 100, 10, 86, 36, 112, 115, 77, 91,
       65, 95, 31, 34, 37, 109, 52, 12, 67, 42, 59, 50, 24, 80, 32, 103, 108,
       22, 78, 70, 25, 59, 37, 3, 41, 37, 10, 73, 86, 4, 65, 36, 54, 13, 100,
       54, 82, 105, 84, 26, 110, 72, 86, 16, 11, 74, 110, 26, 123, 14, 105,
       49, 9, 12, 110, 14, 89, 16, 54, 28, 88, 93, 66, 78, 108, 46, 87, 124,
       96, 79, 94, 103, 58, 103, 0, 50, 73, 13, 62, 98, 78, 75, 98, 27, 87,
       11, 21, 126, 34, 58, 17, 118, 114, 100, 17, 14, 13, 20, 124, 3, 81, 26,
       92, 124, 127, 41, 4, 2, 70, 102, 44, 112, 105, 85, 11, 69, 18, 127, 89,
       16, 120, 102, 97, 94, 37, 38, 55, 97, 44, 77, 61, 38, 53, 77, 93, 97,
       107, 115, 51, 77, 73, 45, 113, 77, 38, 52, 115, 96, 19, 93, 40, 125,
       100, 106, 59, 116, 56, 113, 68, 10, 20, 0, 60, 27, 41, 46, 4, 87, 74,
       57, 87, 42, 12, 119, 8, 90, 19, 11, 19, 107, 30, 75, 78, 37, 49, 2, 29,
       84, 70, 39, 97, 76, 92, 87, 105, 93, 79, 55, 56, 40, 79, 24, 33, 14,
       108, 54, 3, 75, 96, 98, 26, 19, 103, 37, 104, 80, 123, 5, 88, 117, 55,
       99, 47, 65, 35, 43, 117, 31, 47, 59, 61, 100, 56, 41, 33, 23, 82, 41,
       118, 70, 77, 18, 56, 13, 3, 11, 94, 45, 68, 57, 49, 37, 27, 103, 81, 3,
       125, 14, 8, 121, 113, 1, 31, 123, 18, 10, 66, 52, 5, 4, 7, 109, 104,
       34, 109, 39, 28, 107, 54, 36, 63, 0, 39, 4, 16, 33, 14, 90, 94, 73, 20,
       81, 6, 70, 54, 1, 88, 24, 88, 63, 47, 44, 56, 5, 33, 6, 95, 26, 83, 68,
       15, 48, 21, 70, 27, 78, 79, 45, 39, 82, 51, 122, 67, 2, 38, 49, 1, 36,
       47, 65, 41, 65, 64, 89, 14, 44, 64, 64, 9, 68, 36, 10, 43, 73, 50, 123,
       80, 84, 116, 24, 72, 82, 67, 33, 87, 6, 18, 88, 64, 87, 93, 56, 58, 51,
       43, 93, 73, 88, 40, 9, 97, 104, 46, 42, 51, 65, 124, 87, 57, 35, 58,
       105, 64, 36, 9, 53, 27, 21, 66, 27, 6, 95, 90, 29, 125, 14, 72, 83,
       111, 33, 97, 30, 69, 25, 1, 30, 61, 23, 104, 40, 51, 13, 118, 27, 80,
       116, 34, 38, 43, 106, 38, 113, 99, 115, 65, 1, 3, 49, 73, 91, 115, 83,
       31, 5, 27, 18, 34, 4, 102, 18, 91, 105, 29, 70, 59, 89, 57, 114, 77,
       15, 19, 78, 94, 15, 34, 104, 45, 49, 9, 60, 32, 57, 93, 90, 66, 98, 4,
       75, 108, 114, 83, 80, 62, 68, 65, 126, 92, 71, 34, 119, 112, 121, 6, 5,
       26, 30, 48, 96, 32, 6, 28, 78, 52, 60, 75, 127, 45, 77, 89, 76, 52, 5,
       30, 55, 121, 7, 92, 112, 39, 105, 41, 98, 100, 127, 91, 73, 38, 31, 26,
       66, 121, 107, 121, 91, 88, 49, 88, 48, 81, 14, 103, 6, 124, 106, 63,
       68, 110, 14, 28, 77, 80, 119, 84, 32, 7, 57, 20, 85, 120, 80, 89, 82,
       107, 19, 63, 88, 20, 79, 65, 19, 114, 56, 62, 22, 33, 127, 3, 96, 102,
       75, 67, 117, 39, 93, 72, 88, 77, 2, 62, 7, 94, 78, 74, 36, 121, 97, 64,
       24, 43, 44, 45, 111, 121, 113, 119, 10, 110, 60, 77, 103, 126, 18, 48,
       32, 75, 25, 49, 37, 12, 92, 118, 109, 82, 42, 39, 48, 20, 15, 51, 24,
       91, 56, 69, 25, 38, 102, 67, 42, 43, 7, 107, 5, 83, 30, 51, 67, 86, 74,
       12, 102, 78, 51, 19, 6, 36, 33, 60, 72, 95, 9, 42, 57, 23, 92, 64, 78,
       93, 54, 106, 124, 111, 83, 0, 42, 64, 98, 8, 77, 78, 117, 51, 58, 124,
       104, 14, 97, 3, 17, 46, 86, 11, 26, 35, 74, 125, 121, 21, 103, 103, 83,
       107, 71, 26, 27, 39, 98, 38, 109, 75, 48, 80, 69, 9, 52, 74, 3, 1, 86,
       65, 116, 41, 101, 101, 19, 93, 107, 95, 1, 45, 82, 126, 48, 66, 59, 66,
       85, 123, 98, 50, 43, 14, 106, 105, 6, 79, 76, 107, 16, 70, 92, 67, 81,
       91, 99, 90, 78, 64, 127, 12, 95, 54, 127, 63, 124, 102, 107, 5, 75,
       123, 112, 97, 110, 61, 41, 17, 97, 74, 123, 27, 94, 40, 18, 35, 64, 68,
       120, 67, 23, 46, 112, 45, 63, 6, 111, 26, 126, 26, 36, 69, 58, 118, 44,
       17, 31, 44, 106, 49, 118, 45, 106, 10, 94, 75, 121, 93, 49, 21, 90, 76,
       85, 10, 127, 56, 70, 54, 116, 35, 29, 52, 119, 25, 35, 110, 1, 85, 10,
       75, 12, 91, 88, 38, 6, 59, 6, 0, 123, 46, 8, 126, 26, 44, 90, 92, 31,
       28, 36, 113, 113, 92, 66, 63, 75, 58, 54, 83, 81, 108, 111, 105, 62,
       56, 5, 53, 83, 82, 118, 58, 126, 46, 55, 66, 46, 79, 97, 26, 43, 91,
       72, 92, 82, 36, 124, 22, 88, 103, 34, 121, 41, 93, 15, 9, 121, 95, 90,
       116, 65, 28, 89, 121, 17, 0, 83, 123, 45, 7, 64, 62, 59, 66, 51, 123,
       3, 86, 51, 118, 112, 5, 8, 78, 36, 74, 77, 18, 93, 57, 99, 43, 9, 55,
       70, 100, 9, 91, 48, 90, 99, 18, 45, 48, 32, 108, 16, 1, 123, 27, 95, 2,
       48, 91, 9, 65, 0, 34, 127, 34, 59, 18, 64, 28, 108, 44, 24, 62, 55,
       116, 114, 72, 105, 41, 41, 114, 52, 44, 38, 30, 101, 15, 111, 28, 126,
       46, 116, 24, 93, 0, 123, 9, 123, 84, 70, 119, 100, 38, 14, 80, 63, 78,
       37, 45, 42, 119, 39, 26, 66, 3, 119, 50, 109, 84, 21, 100, 91, 93, 44,
       52, 66, 62, 61, 63, 113, 117, 61, 98, 55, 65, 19, 116, 28, 75, 73, 78,
       96, 46, 17, 32, 23, 53, 45, 111, 110, 116, 29, 11, 99, 64, 62, 12, 23,
       123, 105, 13, 123, 71, 2, 120, 115, 77, 104, 123, 16, 16, 90, 124, 97,
       127, 106, 17, 105, 84, 75, 126, 106, 118, 89, 44, 1, 121, 54, 79, 11,
       41, 65, 28, 115, 112, 41, 99, 61, 58, 88, 75, 92, 106, 87, 32, 41, 102,
       5, 80, 22, 119, 67, 64, 19, 49, 124, 30, 124, 50, 125, 91, 45, 123, 8,
       127, 116, 27, 86, 125, 9, 10, 109, 105, 38, 26, 29, 71, 74, 96, 102,
       116, 0, 76, 124, 27, 115, 4, 104, 60, 14, 89, 105, 112, 51, 108, 13, 9,
       88, 22, 76, 81, 12, 92, 52, 20, 110, 78, 44, 13, 108, 27, 99, 62, 17,
       63, 89, 38, 101, 39, 42, 123, 45, 85, 88, 64, 126, 67, 50, 75, 122, 34,
       102, 26, 47, 106, 36, 121, 87, 121, 80, 95, 63, 23, 30, 5, 98, 72, 77,
       114, 21, 61, 56, 8, 61, 13, 8, 87, 4, 87, 74, 97, 26, 52, 55, 31, 114,
       118, 119, 62, 22, 26, 109, 32, 45, 24, 122, 63, 4, 69, 10, 12, 32, 104,
       32, 40, 21, 45, 110, 19, 101, 124, 49, 9, 81, 91, 77, 72, 32, 25, 19,
       71, 42, 55, 112, 118, 10, 108, 82, 33, 36, 38, 111, 58, 7, 76, 83, 117,
       25, 12, 42, 119, 45, 69, 103, 57, 95, 4, 16, 57, 97, 111, 32, 83, 79,
       105, 91, 51, 86, 91, 117, 47, 106, 119, 99, 15, 58, 56, 73, 75, 60, 30,
       63, 39, 107, 100, 81, 81, 20, 56, 42, 117, 96, 46, 47, 92, 55, 73, 23,
       52, 88, 41, 15, 111, 92, 9, 101, 36, 31, 1, 8, 127, 107, 2, 44, 30, 40,
       14, 114, 24, 68, 84, 47, 13, 53, 46, 55, 20, 44, 83, 23, 36, 13, 83,
       126, 33, 16, 90, 85, 102, 102, 53, 55, 77, 67, 51, 121, 109, 28, 30,
       48, 56, 125, 97, 120, 1, 12, 14, 84, 103, 25, 16, 18, 83, 71, 98, 10,
       79, 104, 103, 65, 75, 83, 0, 123, 34, 23, 124, 45, 96, 25, 36, 121, 73,
       42, 49, 89, 78, 17, 67, 61, 75, 109, 77, 70, 83, 75, 92, 59, 96, 54,
       125, 64, 101, 115, 50, 33, 127, 88, 14, 16, 110, 90, 109, 119, 8, 72,
       30, 22, 82, 1, 47, 78>>)
    @@
    (19 :> <<
       86, 5, 100, 114, 66, 15, 65, 25, 50, 44, 127, 67, 37, 74, 18, 76, 33,
       13, 33, 52, 41, 123, 34, 106, 13, 98, 41, 114, 39, 2, 72, 79, 25, 112,
       9, 117, 25, 14, 69, 58, 49, 110, 93, 9, 102, 12, 53, 2, 12, 74, 93, 54,
       96, 109, 50, 56, 84, 126, 38, 73, 117, 64, 106, 20, 101, 81, 122, 52,
       29, 99, 69, 73, 93, 13, 102, 26, 49, 24, 17, 17, 80, 63, 13, 70, 90,
       58, 0, 122, 58, 115, 61, 76, 15, 66, 61, 105, 64, 63, 47, 54, 114, 69,
       110, 23, 113, 0, 31, 11, 3, 59, 48, 57, 14, 86, 90, 83, 33, 119, 16,
       60, 36, 57, 51, 37, 94, 21, 59, 56, 38, 39, 86, 97, 5, 9, 26, 39, 87,
       123, 96, 53, 12, 59, 8, 59, 64, 57, 84, 122, 2, 22, 55, 83, 35, 9, 10,
       16, 21, 55, 36, 113, 59, 106, 14, 25, 79, 60, 112, 127, 87, 103, 8, 54,
       83, 121, 81, 19, 1, 112, 49, 79, 83, 37, 121, 81, 118, 5, 72, 69, 75,
       45, 122, 32, 26, 33, 65, 40, 7, 3, 99, 35, 83, 109, 26, 8, 25, 37, 67,
       59, 96, 64, 17, 126, 41, 102, 65, 102, 33, 71, 113, 91, 92, 94, 122,
       39, 82, 95, 87, 67, 36, 82, 64, 72, 54, 105, 61, 119, 7, 111, 108, 28,
       19, 5, 58, 109, 119, 14, 65, 75, 111, 12, 33, 91, 59, 89, 48, 87, 41,
       42, 47, 23, 56, 110, 107, 42, 124, 92, 12, 81, 85, 84, 67, 57, 52, 79,
       5, 111, 46, 11, 40, 55, 46, 58, 75, 93, 46, 5, 37, 33, 35, 11, 125, 28,
       50, 4, 124, 21, 21, 60, 84, 91, 70, 13, 90, 76, 65, 11, 111, 4, 75, 55,
       5, 91, 87, 17, 78, 41, 31, 69, 93, 69, 106, 4, 35, 24, 18, 31, 37, 15,
       75, 108, 56, 16, 9, 88, 57, 39, 70, 51, 74, 28, 45, 94, 100, 13, 86,
       30, 33, 17, 44, 58, 118, 71, 28, 71, 57, 113, 38, 7, 74, 108, 101, 56,
       15, 124, 24, 78, 8, 63, 16, 49, 66, 35, 62, 44, 121, 123, 57, 6, 67,
       54, 3, 73, 28, 84, 39, 71, 31, 13, 100, 51, 53, 81, 17, 88, 68, 29, 19,
       58, 23, 91, 77, 61, 11, 35, 96, 51, 56, 75, 8, 73, 86, 127, 123, 0, 94,
       30, 107, 108, 120, 10, 34, 31, 62, 20, 94, 66, 50, 33, 123, 59, 54,
       102, 2, 17, 12, 22, 54, 103, 2, 34, 78, 100, 127, 62, 119, 76, 126, 42,
       31, 39, 23, 99, 9, 69, 119, 38, 3, 15, 9, 6, 85, 99, 121, 11, 68, 58,
       8, 123, 4, 11, 104, 48, 88, 62, 39, 47, 125, 43, 35, 120, 19, 15, 123,
       77, 7, 5, 46, 118, 23, 14, 81, 43, 62, 45, 32, 91, 80, 59, 13, 69, 125,
       81, 100, 73, 26, 4, 76, 21, 34, 96, 73, 49, 40, 2, 26, 68, 62, 103, 9,
       3, 127, 92, 100, 62, 29, 85, 76, 114, 22, 23, 21, 81, 49, 21, 91, 68,
       8, 101, 119, 24, 32, 13, 21, 82, 62, 67, 115, 64, 53, 26, 68, 9, 126,
       76, 67, 55, 44, 77, 24, 40, 66, 19, 80, 84, 75, 121, 24, 116, 1, 106,
       123, 5, 88, 33, 108, 39, 107, 89, 54, 59, 23, 88, 123, 89, 114, 68, 8,
       88, 80, 51, 64, 118, 3, 110, 72, 79, 83, 86, 57, 74, 32, 66, 113, 114,
       85, 72, 35, 115, 99, 57, 116, 104, 49, 96, 73, 40, 12, 61, 16, 108,
       108, 69, 122, 68, 119, 50, 19, 6, 89, 96, 50, 76, 27, 30, 114, 100, 12,
       95, 10, 108, 44, 85, 18, 61, 50, 47, 80, 13, 65, 75, 117, 125, 61, 5,
       18, 125, 70, 109, 2, 119, 84, 61, 20, 42, 62, 113, 56, 19, 119, 35, 16,
       101, 36, 106, 42, 39, 66, 62, 49, 37, 125, 78, 118, 51, 120, 49, 85, 2,
       101, 29, 70, 95, 25, 46, 21, 127, 24, 1, 98, 16, 85, 78, 4, 95, 37,
       127, 9, 44, 67, 92, 43, 120, 61, 81, 47, 68, 51, 52, 58, 61, 100, 96,
       8, 8, 97, 122, 74, 45, 101, 46, 19, 25, 36, 19, 116, 46, 122, 123, 34,
       66, 48, 63, 43, 23, 41, 45, 121, 74, 64, 4, 54, 59, 115, 35, 81, 65,
       120, 100, 83, 10, 56, 119, 10, 41, 63, 4, 66, 17, 79, 74, 108, 27, 46,
       17, 70, 79, 105, 51, 121, 56, 105, 104, 33, 121, 105, 105, 86, 122, 40,
       22, 70, 110, 101, 89, 103, 68, 31, 104, 62, 104, 84, 3, 21, 120, 97,
       95, 101, 59, 74, 26, 122, 113, 40, 113, 35, 97, 124, 96, 78, 39, 0, 47,
       55, 16, 40, 123, 105, 66, 124, 113, 17, 113, 86, 22, 109, 71, 14, 127,
       56, 94, 4, 35, 45, 32, 74, 38, 90, 112, 35, 33, 84, 17, 70, 9, 46, 79,
       64, 46, 102, 1, 101, 86, 53, 38, 101, 36, 56, 23, 60, 58, 29, 43, 63,
       37, 7, 66, 108, 30, 47, 15, 46, 57, 109, 8, 87, 31, 58, 58, 110, 95,
       76, 19, 110, 12, 33, 114, 100, 94, 121, 55, 51, 87, 97, 92, 124, 55,
       75, 21, 96, 14, 14, 43, 14, 26, 105, 43, 98, 67, 19, 101, 101, 86, 18,
       79, 108, 49, 119, 104, 68, 63, 38, 43, 97, 30, 111, 86, 19, 58, 60, 63,
       83, 126, 97, 126, 1, 68, 102, 14, 79, 107, 105, 83, 16, 108, 52, 127,
       80, 98, 114, 124, 52, 66, 120, 5, 67, 87, 117, 11, 125, 65, 10, 70, 26,
       119, 40, 70, 68, 42, 91, 124, 75, 102, 44, 120, 22, 117, 55, 116, 126,
       30, 24, 85, 22, 51, 69, 56, 22, 127, 101, 79, 61, 56, 9, 57, 60, 59,
       89, 126, 74, 79, 28, 95, 120, 57, 13, 82, 3, 62, 31, 83, 113, 92, 67,
       19, 84, 114, 47, 46, 45, 0, 56, 38, 23, 61, 76, 107, 40, 108, 121, 58,
       99, 90, 24, 116, 119, 38, 15, 100, 118, 29, 57, 63, 106, 127, 67, 71,
       54, 44, 45, 40, 72, 17, 67, 95, 15, 78, 61, 28, 61, 46, 107, 2, 21, 73,
       24, 124, 10, 101, 50, 50, 53, 0, 45, 23, 11, 84, 118, 110, 6, 46, 87,
       103, 28, 75, 62, 115, 51, 46, 64, 108, 13, 38, 27, 43, 11, 109, 90,
       110, 3, 115, 86, 56, 34, 47, 13, 13, 106, 40, 95, 38, 17, 11, 32, 121,
       95, 25, 39, 125, 95, 14, 71, 14, 70, 63, 37, 71, 67, 115, 112, 93, 11,
       70, 61, 0, 62, 2, 1, 76, 36, 14, 25, 103, 85, 99, 87, 76, 80, 38, 52,
       124, 102, 88, 105, 62, 89, 12, 6, 94, 24, 120, 105, 1, 26, 69, 76, 18,
       117, 100, 39, 36, 56, 121, 47, 84, 70, 37, 45, 34, 26, 115, 121, 8, 48,
       59, 120, 106, 55, 91, 18, 10, 26, 77, 52, 80, 126, 24, 56, 60, 14, 78,
       46, 0, 52, 49, 74, 93, 18, 75, 38, 22, 15, 114, 41, 19, 64, 36, 101,
       58, 16, 97, 16, 113, 16, 25, 50, 118, 115, 63, 126, 42, 60, 105, 116,
       33, 39, 87, 47, 119, 29, 85, 65, 89, 28, 119, 108, 80, 99, 50, 90, 29,
       82, 28, 42, 22, 41, 106, 82, 47, 47, 50, 74, 52, 24, 110, 75, 118, 109,
       13, 82, 110, 37, 17, 38, 99, 40, 115, 43, 21, 104, 29, 12, 115, 77,
       105, 26, 31, 68, 55, 91, 88, 55, 75, 26, 99, 75, 91, 41, 4, 72, 5, 93,
       83, 41, 110, 68, 115, 73, 104, 65, 47, 38, 36, 27, 63, 109, 120, 21,
       94, 17, 44, 0, 88, 119, 58, 31, 104, 89, 100, 42, 98, 81, 16, 74, 84,
       37, 93, 48, 93, 115, 44, 86, 76, 17, 112, 107, 49, 53, 34, 0, 35, 69,
       109, 107, 102, 76, 92, 34, 67, 72, 14, 10, 114, 10, 25, 7, 69, 69, 58,
       68, 43, 51, 81, 80, 23, 27, 44, 127, 17, 22, 34, 52, 78, 80, 85, 13,
       43, 126, 65, 9, 31, 93, 122, 8, 2, 61, 106, 114, 61, 79, 86, 27, 62,
       118, 114, 22, 57, 22, 56, 65, 20, 82, 75, 48, 89, 68, 45, 68, 127, 26,
       102, 55, 57, 28, 23, 115, 99, 83, 27, 17, 39, 57, 1, 34, 66, 88, 17,
       127, 60, 35, 11, 85, 18, 37, 91, 55, 106, 65, 44, 62, 102, 66, 29, 69,
       50, 70, 75, 106, 25, 114, 103, 28, 64, 67, 87, 103, 67, 119, 114, 50,
       23, 31, 121, 89, 120, 118, 23, 22, 27, 37, 97, 87, 99, 16, 124, 34, 18,
       45, 87, 38, 10, 67, 42, 58, 56, 22, 20, 92, 95, 65, 33, 98, 27, 10,
       108, 117, 120, 55, 26, 89, 25, 69, 31, 123, 87, 123, 98, 67, 77, 51,
       83, 0, 1, 11, 62, 22, 36, 100, 50, 38, 5, 16, 32, 86, 54, 13, 111, 18,
       95, 52, 122, 121, 55, 42, 83, 67, 47, 69, 15, 1, 61, 36, 93, 19, 35,
       31, 45, 38, 56, 52, 117, 57, 12, 58, 119, 21, 80, 20, 84, 3, 68, 107,
       28, 67, 32, 27, 127, 53, 13, 1, 57, 110, 109, 109, 82, 58, 56, 48, 8,
       8, 34, 106, 74, 20, 90, 58, 8, 114, 57, 115, 109, 9, 43, 38, 56, 93,
       100, 95, 31, 42, 20, 74, 98, 58, 26, 113, 24, 114, 2, 118, 32, 91, 111,
       83, 17, 90, 46, 19, 29, 81, 107, 62, 101, 57, 97, 37, 73, 38, 115, 55,
       72, 112, 26, 127, 20, 57, 78, 69, 48, 103, 70, 40, 91, 127, 123, 67,
       53, 15, 72, 43, 105, 79, 107, 122, 75, 43, 56, 50, 111, 58, 17, 16, 62,
       0, 79, 103, 53, 10, 65, 94, 4, 106, 65, 109, 34, 1, 47, 65, 70, 2, 36,
       14, 2, 34, 43, 59, 60, 47, 107, 17, 38, 57, 58, 87, 79, 42, 85, 88, 31,
       40, 42, 101, 16, 89, 118, 60, 15, 43, 64, 37, 89, 28, 121, 2, 46, 65,
       120, 93, 2, 54, 112, 62, 6, 120, 121, 36, 0, 53, 59, 112, 46, 97, 113,
       20, 16, 51, 76, 71, 30, 33, 40, 100, 77, 103, 16, 4, 71, 75, 90, 0, 61,
       63, 122, 0, 59, 80, 76, 11, 96, 6, 43, 90, 85, 7, 126, 45, 116, 5, 49,
       73, 84, 29, 79, 53, 15, 90, 25, 70, 109, 92, 82, 104, 126, 23, 36, 35,
       90, 23, 92, 102, 114, 77, 104, 27, 16, 29, 50, 13, 33, 59, 113, 31, 20,
       52, 80, 67, 30, 89, 103, 67, 120, 60, 61, 35, 58, 90, 19, 21, 110, 28,
       33, 39, 68, 127, 21, 21, 82, 105, 54, 112, 99, 118, 97, 120, 40, 90,
       16, 18, 65, 25, 49, 98, 104, 91, 41, 67, 49, 37, 50, 111, 98, 43, 84,
       71, 125, 117, 28, 56, 120, 85, 69, 47, 51, 97, 73, 111, 53, 3, 84, 55,
       15, 124, 78, 127, 115, 67, 9, 14, 121, 18, 47, 117, 122, 82, 126, 17,
       115, 122, 69, 8, 58, 41, 96, 91, 13, 1, 60, 71, 64, 67, 59, 92, 20, 53,
       90, 67, 7, 61, 123, 26, 125, 89, 35, 45, 99, 85, 47, 73, 33, 96, 78,
       99, 74, 36, 6, 106, 53, 101, 82, 82, 24, 37, 114, 11, 65, 124, 36, 87,
       36, 13, 53, 118, 96, 80, 58, 29, 72, 39, 53, 126, 104, 32, 93, 38, 89,
       77, 90, 52, 49, 22, 7, 82, 122, 15, 69, 0, 27, 74, 124, 95, 17, 113,
       40, 10, 56, 15, 61, 27, 95, 16, 79, 7, 92, 45, 75, 34, 127, 92, 17, 16,
       82, 71, 45, 127, 55, 15, 14, 14, 120, 64, 59, 103, 34, 40, 110, 31,
       121, 97, 125, 43, 103, 50, 91, 67, 113, 52, 33, 53, 72, 72, 103, 121,
       18, 126, 125, 50, 36, 8, 88, 83, 67, 63, 22, 60, 95, 116, 114, 14, 96,
       100, 113, 102, 55, 110, 115, 105, 77, 74, 3, 50, 55, 63, 83, 27, 65, 8,
       78, 44, 102, 95, 73, 102, 64, 67, 125, 20, 43, 5, 64, 59, 83, 127, 32,
       20, 18, 29, 121, 12, 72, 82, 81, 74, 98, 61, 123, 3, 120, 61, 102, 109,
       112, 70, 36, 108, 23, 93, 25, 123, 101, 3, 38, 102, 77, 63, 98, 106,
       121, 86, 97, 119, 37, 127, 81, 109, 25, 28, 30, 65, 39, 73, 81, 122,
       95, 80, 55, 67, 54, 83, 122, 54, 16, 97, 4, 0, 105, 88, 108, 99, 90,
       73, 83, 71, 123, 117, 33, 110, 92, 57, 16, 127, 83, 31, 72, 91, 94, 22,
       14, 92, 108, 53, 91, 30, 20, 55, 1, 10, 55, 97, 54, 87, 80, 111, 17,
       100, 80, 75, 80, 17, 48, 70, 105, 31, 75, 107, 121, 67, 96, 88, 119,
       83, 70, 89, 5, 79, 117, 33, 114, 26, 5, 39, 35, 79, 74, 64, 94, 27, 27,
       53, 99, 91, 57, 84, 101, 55, 16, 123, 26, 36, 125, 63, 93, 92, 60, 54,
       80, 46, 31, 123, 104, 54, 68, 79, 73, 20, 11, 6, 122, 16, 0, 72, 108,
       118, 74, 104, 111, 102, 70, 41, 54, 98, 91, 55, 47, 32, 97, 2, 58, 93,
       18, 39, 54, 77, 96, 73, 30, 24, 119, 3, 7, 19, 99, 61, 84, 39, 2, 15,
       119, 37, 72, 74, 30, 41, 13, 124, 37, 73, 86, 123, 89, 105, 9, 28, 75,
       49, 33, 118, 4, 99, 99, 86, 28, 38, 2, 47, 74, 35, 36, 4, 25, 60, 93,
       55, 11, 101, 73, 1, 104, 2, 111, 35, 23, 97, 102, 53, 98, 85, 50, 112,
       61, 41, 123, 103, 16, 71, 2, 95, 116, 35, 57, 105, 3, 42, 33, 106, 75,
       73, 117, 116, 22, 33, 96, 113, 28, 116, 57, 39, 1, 91, 42, 98, 20, 68,
       85, 70, 111, 75, 123, 75, 4, 74, 87, 13, 48, 21, 46, 125, 84, 65, 18,
       120, 53, 74, 52, 91, 26, 53, 116, 110, 56, 60, 114, 96, 38, 60, 65, 90,
       82, 89, 50, 84, 56, 60, 52, 6, 90, 56, 99, 59, 84, 106, 36, 31, 0, 114,
       103, 102, 95, 33, 73, 9, 91, 51, 107, 123, 125, 70, 4, 90, 106, 79, 22,
       120, 20, 4, 46, 27, 32, 101, 44, 54, 111, 7, 35, 89, 48, 103, 39, 56,
       36, 47, 48, 96, 50, 5, 126, 110, 18, 67, 51, 98, 24, 3, 3, 112, 72, 11,
       24, 40, 18, 80, 72, 88, 80, 4, 80, 99, 81, 33, 115, 123, 83, 56, 103,
       85, 9, 13, 113, 57, 6, 43, 8, 122, 65, 41, 95, 55, 3, 48, 6, 40, 42,
       58, 117, 109, 57, 11, 95, 11, 58, 54, 102, 121, 18, 16, 107, 90, 103,
       103, 12, 37, 113, 125, 94, 109, 62, 11, 102, 59, 19, 63, 55, 107, 76,
       62, 62, 48, 8, 24, 29, 105, 120, 75, 35, 114, 19, 82, 78, 108, 75, 97,
       116, 27, 63, 11, 16, 20, 103, 62, 118, 122, 82, 21, 38, 19, 21, 7, 110,
       62, 61, 69, 14, 103, 124, 83, 89, 39, 108, 114, 120, 10, 70, 111, 45,
       87, 97, 125, 30, 32, 85, 18, 99, 10, 111, 39, 51, 19, 59, 104, 69, 127,
       104, 92, 84, 14, 123, 87, 27, 20, 113, 96, 62, 110, 89, 106, 24, 57,
       59, 116, 122, 32, 5, 24, 15, 36, 17, 60, 50, 58, 88, 69, 0, 107, 110,
       25, 64, 74, 90, 82, 59, 93, 58, 15, 44, 110, 1, 73, 123, 6, 64, 117,
       94, 92, 75, 126, 119, 90, 100, 18, 12, 69, 60, 15, 94, 69, 25, 66, 10,
       53, 58, 23, 70, 14, 88, 20, 28, 13, 3, 9, 102, 10, 66, 10, 5, 112, 112,
       118, 16, 73, 37, 117, 52, 89, 116, 121, 103, 25, 124, 124, 17, 123, 96,
       17, 33, 94, 115, 84, 55, 44, 118, 119, 31, 70, 4, 28, 69, 67, 85, 23,
       20, 11, 16, 27, 88, 16, 60, 11, 118, 49, 46, 73, 119, 31, 38, 73, 51,
       63, 106, 127, 121, 20, 80, 121, 127, 58, 5, 74, 77, 65, 19, 110, 71,
       21, 94, 89, 47, 53, 38, 78, 104, 127, 95, 92, 96, 5, 92, 25, 11, 51,
       92, 79, 98, 95, 63, 110, 77, 20, 125, 87, 100, 68, 78, 74, 65, 5, 59,
       52, 33, 107, 71, 53, 118, 104, 80, 21, 105, 20, 59, 103, 116, 78, 78,
       19, 8, 30, 84, 112, 13, 25, 20, 97, 21, 119, 120, 85, 55, 12, 34, 127,
       3, 115, 93, 65, 38, 34, 29, 10, 105, 38, 126, 108, 56, 61, 23, 127, 71,
       11, 13, 71, 42, 96, 45, 33, 115, 109, 90, 127, 8, 110, 23, 100, 3, 75,
       104, 93, 35, 10, 31, 95, 99, 68, 99, 21, 81, 90, 111, 117, 31, 56, 42,
       12, 76, 106, 32, 24, 57, 20, 16, 101, 111, 38, 7, 18, 41, 90, 85, 122,
       127, 49, 1, 119, 12, 114, 26, 36, 78, 55, 54, 59, 90, 61, 9, 51, 57,
       106, 102, 73, 33, 79, 123, 73, 39, 20, 31, 31, 75, 74, 115, 83, 121,
       63, 5, 36, 9, 86, 1, 73, 29, 71, 98, 60, 34, 18, 43, 64, 83, 115, 7,
       77, 91, 61, 47, 113, 104, 65, 28, 101, 84, 126, 27, 98, 91, 18, 103,
       54, 22, 17, 77, 74, 13, 57, 41, 110, 59, 26, 55, 77, 50, 91, 59, 19,
       55, 114, 68, 16, 30, 64, 122, 96, 94, 15, 50>>)
    @@
    (20 :> <<
       115, 92, 87, 100, 98, 112, 115, 19, 33, 86, 81, 108, 115, 12, 111, 41,
       73, 115, 21, 3, 52, 52, 127, 9, 13, 16, 40, 60, 121, 74, 57, 52, 26,
       25, 40, 80, 116, 87, 42, 42, 54, 11, 80, 66, 103, 107, 62, 51, 10, 26,
       73, 31, 4, 25, 12, 10, 24, 32, 88, 97, 36, 39, 88, 32, 20, 79, 15, 115,
       2, 34, 90, 29, 109, 107, 28, 73, 30, 7, 1, 102, 82, 79, 38, 35, 17, 88,
       82, 42, 76, 92, 57, 116, 19, 118, 81, 35, 71, 106, 55, 20, 21, 51, 118,
       90, 110, 15, 88, 16, 127, 99, 74, 54, 44, 28, 14, 116, 77, 6, 66, 24,
       55, 22, 127, 22, 107, 10, 14, 100, 113, 37, 0, 103, 83, 102, 40, 86,
       93, 51, 121, 58, 67, 96, 97, 92, 6, 106, 85, 21, 15, 120, 58, 71, 42,
       1, 9, 73, 95, 13, 11, 42, 32, 82, 10, 122, 84, 99, 38, 84, 5, 100, 3,
       24, 28, 65, 64, 89, 1, 20, 3, 118, 85, 95, 67, 114, 17, 114, 39, 111,
       16, 53, 35, 13, 49, 12, 27, 30, 25, 109, 28, 12, 38, 16, 71, 49, 113,
       17, 82, 10, 57, 62, 0, 22, 24, 104, 81, 39, 51, 120, 108, 12, 116, 106,
       37, 26, 46, 79, 38, 18, 86, 92, 12, 0, 35, 7, 112, 49, 47, 94, 124, 36,
       50, 125, 107, 115, 59, 103, 12, 8, 73, 60, 27, 123, 117, 1, 89, 93, 67,
       8, 118, 96, 70, 79, 123, 43, 91, 1, 22, 35, 37, 77, 108, 123, 12, 0,
       125, 126, 5, 27, 95, 26, 79, 121, 51, 88, 76, 10, 74, 108, 46, 101, 36,
       56, 6, 103, 83, 17, 112, 79, 48, 115, 109, 71, 50, 50, 32, 0, 102, 99,
       118, 58, 11, 74, 111, 62, 40, 29, 99, 25, 37, 57, 126, 113, 43, 48, 26,
       79, 6, 44, 17, 125, 11, 95, 104, 47, 2, 97, 15, 61, 30, 69, 18, 37, 99,
       93, 0, 17, 87, 46, 44, 67, 18, 2, 29, 55, 67, 57, 31, 118, 50, 125, 49,
       88, 68, 107, 89, 116, 37, 64, 77, 83, 91, 127, 37, 79, 97, 98, 10, 83,
       63, 34, 45, 94, 16, 59, 84, 94, 109, 30, 62, 16, 45, 109, 115, 41, 126,
       114, 80, 115, 71, 18, 81, 95, 89, 92, 87, 87, 68, 117, 96, 15, 95, 34,
       82, 4, 67, 24, 47, 50, 27, 69, 64, 90, 39, 104, 60, 80, 22, 120, 115,
       17, 16, 35, 112, 3, 72, 85, 116, 9, 112, 99, 21, 43, 35, 31, 127, 99,
       84, 40, 10, 18, 33, 33, 12, 16, 38, 127, 9, 63, 5, 64, 5, 60, 60, 50,
       91, 111, 65, 94, 85, 12, 83, 115, 17, 105, 90, 39, 64, 70, 53, 119,
       123, 21, 58, 56, 87, 115, 99, 66, 61, 106, 19, 22, 24, 25, 37, 15, 24,
       57, 51, 59, 8, 108, 98, 108, 98, 39, 81, 68, 14, 102, 27, 92, 115, 105,
       111, 26, 93, 39, 111, 126, 26, 64, 36, 127, 55, 109, 60, 12, 46, 66,
       31, 95, 103, 124, 23, 71, 73, 47, 104, 37, 19, 1, 42, 102, 48, 18, 36,
       65, 117, 111, 112, 93, 16, 65, 8, 22, 76, 105, 64, 66, 4, 14, 110, 35,
       112, 53, 72, 116, 11, 68, 24, 77, 107, 114, 87, 56, 56, 52, 119, 91, 5,
       91, 87, 22, 106, 22, 105, 103, 12, 63, 90, 76, 72, 95, 80, 38, 20, 31,
       123, 35, 123, 29, 15, 12, 70, 88, 68, 75, 57, 55, 42, 100, 30, 69, 93,
       21, 65, 7, 57, 11, 64, 3, 36, 3, 114, 32, 98, 45, 33, 119, 39, 124, 68,
       51, 81, 116, 115, 110, 118, 86, 8, 86, 110, 46, 1, 7, 73, 94, 98, 108,
       22, 20, 29, 81, 9, 93, 56, 53, 106, 5, 0, 77, 96, 27, 49, 69, 119, 121,
       71, 102, 59, 11, 36, 97, 108, 109, 59, 114, 89, 109, 84, 99, 104, 67,
       37, 42, 13, 57, 24, 19, 79, 81, 15, 95, 4, 109, 45, 23, 84, 25, 23, 28,
       37, 0, 15, 6, 125, 28, 116, 54, 126, 64, 81, 77, 48, 85, 35, 78, 43,
       82, 99, 76, 69, 121, 16, 40, 113, 119, 109, 6, 1, 109, 11, 65, 64, 67,
       60, 22, 105, 18, 26, 70, 125, 105, 44, 16, 18, 113, 125, 127, 97, 37,
       101, 12, 21, 70, 123, 116, 38, 104, 59, 26, 111, 10, 15, 19, 3, 121,
       79, 19, 65, 96, 121, 45, 124, 39, 46, 122, 95, 107, 2, 33, 91, 3, 57,
       0, 40, 100, 36, 89, 60, 104, 58, 100, 39, 6, 3, 126, 4, 10, 2, 65, 108,
       39, 53, 35, 58, 79, 117, 35, 10, 104, 104, 82, 113, 125, 54, 110, 90,
       9, 3, 113, 50, 97, 2, 33, 94, 1, 124, 99, 118, 87, 67, 75, 104, 8, 86,
       122, 0, 104, 40, 92, 13, 63, 55, 13, 42, 66, 3, 93, 1, 87, 15, 116, 72,
       127, 107, 84, 81, 4, 112, 79, 29, 57, 31, 44, 47, 71, 8, 90, 66, 105,
       15, 91, 8, 31, 107, 105, 32, 74, 57, 107, 59, 63, 5, 115, 5, 103, 110,
       103, 116, 103, 96, 83, 59, 10, 23, 115, 20, 74, 66, 79, 27, 71, 79,
       101, 126, 77, 120, 72, 31, 25, 30, 36, 5, 16, 118, 44, 123, 74, 106,
       94, 92, 114, 76, 58, 117, 93, 40, 56, 63, 0, 117, 38, 77, 15, 46, 94,
       25, 109, 36, 98, 110, 18, 76, 74, 91, 105, 108, 73, 93, 125, 67, 22, 7,
       110, 100, 111, 29, 32, 22, 66, 4, 99, 64, 1, 80, 96, 13, 24, 13, 60,
       58, 120, 66, 34, 29, 126, 115, 7, 55, 122, 31, 36, 102, 125, 99, 42,
       39, 31, 44, 62, 54, 85, 8, 116, 115, 26, 26, 113, 27, 122, 92, 63, 59,
       106, 83, 41, 19, 58, 84, 68, 122, 51, 124, 8, 3, 96, 18, 60, 27, 72,
       74, 94, 65, 6, 61, 91, 32, 0, 13, 65, 59, 5, 28, 15, 84, 100, 125, 2,
       17, 118, 114, 9, 119, 28, 49, 67, 3, 70, 43, 26, 32, 82, 92, 71, 125,
       35, 123, 40, 27, 90, 29, 112, 53, 6, 32, 122, 83, 69, 78, 95, 1, 67,
       30, 88, 56, 43, 53, 41, 95, 47, 10, 124, 11, 79, 50, 60, 22, 34, 16, 9,
       124, 123, 88, 19, 5, 17, 95, 29, 15, 75, 120, 3, 27, 11, 42, 30, 5, 62,
       29, 117, 17, 125, 91, 107, 121, 50, 13, 58, 32, 103, 106, 112, 71, 26,
       107, 6, 40, 50, 9, 54, 56, 54, 53, 70, 15, 118, 80, 104, 94, 28, 72,
       106, 88, 81, 94, 64, 111, 77, 90, 31, 40, 12, 112, 113, 112, 69, 108,
       2, 117, 24, 0, 113, 110, 64, 107, 5, 43, 116, 21, 111, 100, 105, 110,
       85, 53, 43, 6, 29, 19, 33, 38, 60, 84, 79, 100, 36, 13, 41, 9, 29, 80,
       74, 58, 77, 65, 28, 117, 36, 1, 85, 83, 27, 48, 107, 71, 15, 26, 11,
       104, 56, 51, 114, 61, 105, 79, 64, 53, 26, 17, 11, 66, 121, 17, 50, 61,
       125, 87, 74, 112, 106, 66, 65, 68, 91, 69, 7, 72, 58, 31, 11, 49, 41,
       8, 113, 10, 78, 100, 47, 16, 27, 5, 5, 124, 31, 16, 3, 13, 87, 16, 33,
       60, 55, 71, 72, 32, 21, 99, 111, 99, 124, 59, 99, 23, 116, 17, 115,
       112, 5, 24, 14, 116, 66, 45, 59, 123, 60, 41, 104, 92, 109, 6, 40, 42,
       106, 96, 49, 114, 13, 113, 103, 118, 2, 121, 114, 88, 96, 56, 122, 23,
       8, 81, 67, 99, 56, 71, 16, 25, 40, 78, 95, 81, 84, 55, 79, 24, 95, 95,
       86, 20, 44, 5, 113, 87, 71, 73, 18, 124, 83, 38, 91, 44, 127, 108, 91,
       77, 33, 111, 8, 104, 122, 82, 71, 30, 49, 63, 6, 124, 76, 1, 2, 84,
       124, 115, 104, 90, 88, 61, 76, 81, 100, 64, 69, 46, 127, 124, 69, 116,
       85, 29, 50, 10, 91, 101, 64, 60, 40, 72, 124, 26, 86, 124, 64, 117, 56,
       84, 12, 123, 51, 11, 113, 77, 88, 13, 100, 109, 74, 70, 111, 96, 23,
       54, 50, 18, 94, 38, 17, 73, 74, 89, 92, 119, 36, 102, 85, 100, 37, 109,
       111, 46, 127, 73, 82, 22, 55, 47, 43, 104, 87, 35, 108, 27, 30, 42, 14,
       0, 109, 36, 62, 17, 43, 60, 117, 27, 73, 106, 92, 70, 47, 95, 73, 38,
       28, 73, 42, 127, 37, 116, 102, 56, 125, 82, 75, 80, 10, 19, 33, 111,
       12, 36, 26, 62, 106, 10, 88, 92, 105, 86, 122, 122, 120, 35, 61, 17,
       48, 10, 118, 5, 4, 103, 79, 38, 35, 19, 4, 66, 21, 42, 80, 117, 87, 4,
       80, 106, 32, 87, 122, 119, 3, 32, 54, 86, 63, 5, 80, 93, 7, 17, 82, 4,
       126, 70, 123, 115, 17, 92, 87, 100, 21, 90, 116, 87, 115, 106, 122, 2,
       49, 35, 80, 14, 29, 7, 120, 117, 21, 7, 12, 122, 35, 36, 18, 65, 15,
       39, 76, 78, 69, 52, 15, 28, 13, 8, 20, 110, 95, 4, 52, 90, 89, 106, 49,
       3, 89, 6, 50, 45, 51, 94, 121, 22, 75, 16, 97, 87, 3, 110, 102, 32,
       121, 123, 41, 0, 39, 62, 86, 57, 99, 106, 106, 125, 32, 71, 79, 96, 39,
       79, 31, 15, 92, 107, 125, 14, 20, 34, 11, 118, 29, 118, 35, 90, 118,
       58, 83, 38, 87, 39, 31, 10, 34, 4, 36, 10, 38, 72, 20, 74, 59, 119, 35,
       110, 105, 54, 8, 10, 109, 84, 47, 100, 60, 29, 9, 16, 121, 126, 61, 86,
       36, 45, 124, 95, 94, 8, 88, 33, 51, 116, 27, 57, 54, 90, 95, 96, 40,
       85, 38, 48, 1, 45, 75, 60, 20, 94, 46, 64, 113, 3, 58, 56, 68, 61, 78,
       74, 127, 56, 56, 63, 40, 103, 45, 95, 102, 39, 73, 7, 13, 103, 83, 74,
       42, 1, 11, 61, 64, 80, 121, 126, 88, 44, 114, 16, 69, 56, 22, 18, 125,
       106, 115, 16, 74, 127, 14, 2, 62, 80, 32, 127, 37, 32, 80, 37, 19, 17,
       27, 77, 63, 80, 84, 40, 114, 84, 82, 70, 20, 79, 10, 107, 63, 54, 52,
       86, 102, 102, 30, 54, 1, 70, 90, 124, 5, 34, 108, 48, 73, 92, 87, 127,
       71, 45, 6, 103, 98, 10, 57, 22, 12, 56, 32, 39, 127, 41, 25, 83, 101,
       98, 5, 77, 112, 74, 89, 0, 27, 108, 105, 93, 43, 11, 5, 62, 42, 19,
       109, 3, 120, 71, 31, 80, 58, 109, 60, 53, 3, 10, 116, 38, 58, 50, 67,
       10, 93, 121, 66, 39, 27, 109, 90, 43, 29, 100, 109, 58, 12, 39, 126,
       87, 88, 44, 36, 49, 33, 116, 53, 68, 58, 107, 69, 103, 46, 100, 7, 112,
       115, 120, 42, 8, 11, 63, 50, 78, 125, 76, 40, 22, 80, 65, 96, 125, 47,
       54, 38, 34, 55, 86, 59, 97, 50, 78, 25, 111, 7, 117, 4, 52, 126, 100,
       7, 116, 74, 35, 67, 7, 74, 98, 66, 103, 110, 21, 111, 92, 14, 65, 106,
       29, 18, 2, 56, 14, 3, 105, 103, 16, 44, 107, 67, 20, 73, 26, 6, 106,
       66, 33, 118, 56, 33, 84, 114, 1, 51, 13, 59, 65, 16, 55, 110, 47, 64,
       110, 23, 13, 99, 46, 47, 66, 89, 124, 38, 96, 46, 59, 73, 126, 37, 118,
       110, 103, 62, 106, 90, 106, 101, 29, 54, 63, 101, 53, 123, 36, 11, 10,
       125, 3, 120, 21, 68, 10, 45, 109, 54, 105, 82, 82, 114, 78, 81, 47, 6,
       15, 26, 119, 80, 100, 51, 21, 54, 81, 14, 33, 97, 18, 33, 44, 14, 87,
       30, 84, 38, 85, 78, 109, 102, 120, 27, 71, 80, 127, 91, 26, 65, 115,
       112, 50, 81, 63, 89, 78, 65, 61, 107, 53, 122, 54, 6, 22, 59, 15, 6,
       109, 24, 30, 26, 88, 74, 50, 83, 80, 30, 88, 21, 74, 123, 121, 86, 93,
       126, 82, 64, 20, 31, 51, 108, 102, 10, 73, 80, 99, 27, 36, 0, 87, 115,
       28, 14, 39, 83, 63, 19, 43, 94, 23, 105, 55, 17, 5, 75, 94, 3, 43, 103,
       91, 100, 95, 94, 76, 80, 62, 46, 113, 22, 62, 84, 9, 54, 90, 84, 47, 0,
       103, 14, 99, 105, 84, 93, 75, 8, 33, 65, 79, 71, 13, 36, 117, 24, 27,
       37, 6, 3, 28, 20, 119, 28, 92, 70, 36, 94, 109, 52, 105, 31, 64, 54,
       42, 52, 120, 114, 17, 23, 39, 14, 86, 103, 10, 104, 99, 70, 76, 99, 92,
       45, 4, 119, 11, 127, 110, 88, 14, 48, 48, 39, 9, 3, 67, 68, 60, 123,
       79, 32, 48, 66, 19, 20, 82, 21, 18, 102, 88, 118, 95, 28, 104, 118, 59,
       59, 86, 82, 36, 95, 88, 49, 110, 94, 48, 4, 60, 12, 83, 89, 116, 91,
       50, 10, 15, 70, 67, 90, 90, 5, 90, 29, 105, 30, 117, 29, 49, 41, 6, 50,
       0, 29, 77, 60, 42, 26, 112, 112, 109, 38, 91, 125, 1, 44, 31, 22, 127,
       36, 29, 84, 5, 56, 44, 90, 62, 106, 55, 66, 111, 45, 24, 114, 73, 50,
       34, 81, 76, 49, 47, 12, 101, 36, 119, 104, 94, 64, 21, 88, 34, 23, 54,
       18, 8, 112, 118, 69, 73, 78, 115, 77, 86, 75, 116, 31, 88, 117, 98, 16,
       71, 34, 44, 123, 80, 108, 80, 46, 46, 3, 77, 72, 89, 21, 89, 50, 57,
       95, 17, 10, 72, 108, 18, 83, 122, 100, 37, 55, 96, 93, 70, 50, 41, 73,
       66, 41, 86, 13, 79, 120, 6, 20, 45, 117, 46, 78, 117, 89, 97, 40, 29,
       27, 126, 108, 80, 118, 53, 80, 96, 124, 24, 78, 70, 24, 38, 3, 65, 31,
       105, 49, 12, 11, 5, 50, 121, 48, 120, 85, 33, 70, 16, 39, 54, 121, 104,
       14, 57, 109, 102, 93, 90, 20, 127, 49, 62, 96, 58, 29, 33, 95, 15, 33,
       97, 118, 99, 90, 113, 123, 82, 97, 22, 35, 122, 127, 113, 58, 0, 110,
       70, 101, 110, 68, 25, 104, 96, 36, 97, 18, 114, 13, 121, 4, 17, 95, 1,
       46, 37, 3, 77, 96, 60, 101, 27, 32, 85, 21, 87, 61, 117, 57, 23, 46, 3,
       28, 3, 65, 77, 93, 3, 33, 7, 30, 3, 35, 4, 39, 14, 16, 10, 98, 74, 19,
       61, 64, 28, 69, 54, 61, 110, 14, 60, 68, 80, 9, 72, 7, 28, 27, 27, 111,
       90, 26, 112, 122, 105, 116, 106, 99, 4, 77, 70, 48, 13, 62, 33, 70, 24,
       48, 61, 55, 13, 45, 49, 121, 23, 81, 93, 85, 0, 66, 116, 86, 99, 117,
       79, 53, 108, 121, 40, 44, 119, 84, 106, 125, 35, 78, 31, 123, 48, 100,
       41, 53, 29, 89, 88, 6, 93, 85, 78, 71, 44, 21, 7, 40, 12, 64, 92, 103,
       78, 2, 108, 42, 75, 107, 15, 77, 58, 2, 114, 101, 94, 40, 117, 63, 110,
       34, 58, 46, 73, 125, 104, 70, 91, 105, 40, 55, 36, 64, 34, 104, 58, 76,
       27, 78, 112, 92, 118, 36, 15, 14, 103, 106, 95, 23, 87, 104, 61, 56,
       64, 125, 59, 32, 17, 76, 2, 67, 40, 83, 0, 82, 98, 14, 8, 79, 38, 47,
       53, 43, 39, 100, 25, 14, 100, 62, 73, 19, 30, 126, 125, 82, 23, 100,
       94, 91, 53, 117, 58, 52, 122, 37, 9, 122, 38, 82, 24, 89, 105, 73, 2,
       29, 101, 20, 97, 108, 21, 63, 10, 67, 38, 63, 10, 10, 40, 102, 0, 102,
       78, 11, 19, 18, 76, 27, 73, 56, 90, 49, 61, 30, 63, 62, 57, 87, 23,
       111, 15, 85, 107, 94, 0, 58, 101, 53, 67, 86, 31, 59, 65, 62, 62, 14,
       80, 108, 71, 23, 111, 96, 19, 18, 62, 26, 91, 77, 56, 94, 6, 34, 63,
       29, 29, 84, 13, 45, 86, 14, 106, 73, 74, 62, 41, 12, 121, 3, 82, 20,
       106, 16, 96, 1, 55, 89, 120, 18, 105, 71, 19, 74, 39, 3, 2, 76, 23, 8,
       113, 38, 19, 35, 2, 13, 84, 86, 73, 9, 35, 112, 99, 122, 30, 21, 99,
       55, 90, 2, 109, 84, 49, 56, 29, 18, 9, 0, 68, 23, 120, 95, 116, 110,
       70, 55, 118, 17, 27, 97, 68, 35, 44, 90, 79, 67, 14, 6, 91, 10, 124,
       46, 109, 65, 17, 45, 74, 38, 36, 21, 33, 82, 29, 26, 91, 19, 80, 107,
       79, 62, 122, 106, 19, 120, 54, 88, 88, 67, 41, 5, 126, 113, 91, 9, 69,
       76, 50, 114, 108, 45, 100, 35, 80, 111, 101, 42, 102, 83, 110, 21, 24,
       17, 64, 7, 17, 34, 123, 36, 118, 112, 99, 31, 23, 60, 93, 75, 36, 37,
       52, 118, 80, 115, 24, 10, 45, 118, 50, 0, 88, 6, 16, 18, 36, 104, 100,
       75, 83, 22, 126, 64, 95, 110, 59, 25, 41, 13, 93, 126, 124, 13, 53, 14,
       48, 56, 58, 99, 9, 90, 115, 54, 25, 59, 76, 41, 114, 83, 15, 69, 53, 7,
       25, 93, 55, 16, 117, 114, 50, 74, 77, 35, 66, 50, 5, 37, 33, 113, 127,
       85, 9, 45, 101, 108, 91, 96, 63, 103, 80, 123, 100, 123, 99, 32, 15,
       104, 100, 69, 52, 36, 21, 108, 107, 116, 53, 60, 5, 22, 89, 88, 49, 62,
       1, 66, 9, 2>>)
    @@
    (21 :> <<
       21, 53, 88, 53, 81, 36, 61, 107, 27, 126, 101, 60, 103, 123, 65, 23,
       64, 67, 30, 100, 0, 1, 47, 119, 74, 54, 8, 18, 101, 96, 29, 117, 29,
       88, 5, 55, 127, 127, 94, 98, 112, 52, 78, 56, 4, 122, 42, 69, 63, 88,
       14, 83, 121, 120, 47, 2, 19, 94, 104, 11, 15, 103, 118, 2, 58, 20, 70,
       93, 43, 51, 62, 19, 23, 85, 4, 60, 110, 104, 30, 9, 99, 25, 26, 86,
       124, 102, 114, 84, 96, 121, 97, 114, 74, 126, 93, 9, 15, 71, 60, 71,
       105, 49, 25, 43, 118, 18, 113, 68, 52, 37, 46, 122, 57, 64, 49, 40,
       127, 62, 49, 34, 3, 106, 11, 20, 91, 91, 127, 125, 63, 0, 62, 8, 70,
       76, 95, 66, 28, 73, 77, 40, 71, 125, 79, 14, 23, 85, 21, 80, 44, 106,
       118, 42, 44, 97, 76, 119, 39, 31, 13, 21, 8, 118, 104, 22, 99, 54, 47,
       20, 87, 4, 86, 66, 115, 84, 122, 30, 52, 117, 126, 20, 123, 94, 75, 1,
       113, 44, 62, 64, 48, 85, 31, 119, 112, 31, 20, 71, 8, 56, 103, 52, 99,
       94, 61, 7, 107, 36, 6, 109, 33, 84, 37, 4, 53, 31, 21, 50, 8, 111, 43,
       82, 115, 18, 125, 19, 95, 93, 61, 6, 32, 17, 122, 83, 67, 116, 93, 61,
       3, 121, 27, 115, 107, 46, 101, 19, 112, 47, 76, 98, 54, 62, 74, 115,
       108, 61, 39, 17, 68, 75, 35, 17, 98, 92, 1, 48, 87, 16, 122, 91, 3, 33,
       75, 41, 82, 31, 109, 122, 74, 53, 32, 87, 51, 96, 122, 103, 115, 17,
       17, 18, 12, 50, 12, 23, 3, 82, 57, 100, 18, 9, 111, 15, 83, 36, 16, 38,
       68, 120, 41, 50, 63, 113, 28, 79, 21, 23, 23, 109, 48, 25, 90, 95, 70,
       96, 5, 77, 90, 64, 111, 95, 99, 7, 101, 118, 1, 49, 59, 110, 8, 50, 97,
       72, 22, 109, 91, 29, 32, 123, 89, 77, 40, 95, 5, 31, 49, 19, 39, 92,
       115, 126, 37, 104, 64, 102, 70, 62, 121, 73, 12, 69, 76, 7, 65, 76, 94,
       41, 123, 66, 39, 37, 89, 79, 67, 97, 71, 24, 8, 78, 104, 41, 125, 25,
       45, 8, 40, 84, 127, 53, 13, 111, 9, 83, 9, 80, 104, 103, 97, 125, 57,
       64, 79, 121, 2, 87, 82, 90, 56, 60, 66, 65, 49, 112, 51, 9, 28, 3, 6,
       84, 55, 5, 31, 35, 90, 75, 104, 51, 92, 54, 58, 102, 30, 51, 49, 41,
       62, 29, 80, 117, 123, 83, 10, 4, 61, 22, 62, 47, 91, 77, 113, 27, 99,
       57, 80, 80, 97, 79, 85, 93, 109, 77, 89, 104, 87, 33, 31, 61, 117, 63,
       49, 39, 78, 48, 105, 67, 123, 91, 126, 116, 0, 20, 40, 25, 39, 112, 50,
       91, 18, 11, 70, 22, 10, 66, 38, 79, 120, 48, 95, 95, 59, 125, 13, 126,
       122, 21, 90, 55, 26, 86, 42, 47, 82, 74, 87, 24, 33, 10, 121, 3, 41,
       65, 32, 120, 108, 123, 19, 115, 87, 64, 25, 30, 76, 88, 35, 91, 48, 20,
       120, 50, 59, 51, 55, 58, 78, 85, 35, 85, 22, 85, 49, 79, 34, 12, 24,
       124, 122, 27, 4, 44, 103, 80, 119, 111, 90, 47, 2, 9, 64, 74, 5, 50,
       77, 56, 89, 57, 30, 126, 0, 120, 69, 18, 12, 124, 39, 24, 58, 47, 114,
       0, 47, 21, 17, 73, 101, 116, 105, 55, 67, 107, 6, 39, 24, 53, 51, 112,
       70, 31, 28, 73, 102, 105, 107, 74, 118, 59, 113, 101, 2, 84, 74, 9, 10,
       55, 115, 106, 95, 126, 97, 84, 24, 19, 7, 63, 104, 67, 77, 68, 79, 62,
       60, 86, 102, 86, 43, 19, 34, 19, 45, 36, 38, 81, 80, 1, 113, 103, 9,
       85, 8, 23, 65, 12, 86, 106, 24, 46, 34, 45, 7, 20, 4, 74, 63, 35, 87,
       101, 83, 51, 20, 4, 13, 29, 119, 45, 68, 32, 52, 25, 88, 24, 93, 122,
       67, 54, 10, 41, 105, 28, 27, 64, 5, 93, 45, 77, 68, 81, 80, 82, 22, 2,
       90, 47, 63, 61, 20, 110, 108, 56, 103, 2, 116, 35, 86, 7, 27, 87, 99,
       82, 115, 78, 68, 77, 116, 14, 124, 39, 49, 26, 120, 59, 119, 89, 101,
       46, 1, 116, 45, 22, 78, 33, 77, 3, 96, 48, 82, 95, 20, 23, 119, 124,
       68, 64, 112, 52, 26, 28, 127, 65, 71, 36, 99, 57, 94, 98, 112, 122, 46,
       116, 10, 30, 51, 76, 22, 45, 69, 85, 104, 110, 46, 73, 16, 127, 3, 116,
       54, 122, 74, 96, 3, 125, 85, 94, 26, 94, 13, 27, 118, 68, 66, 47, 114,
       126, 65, 37, 15, 20, 30, 84, 54, 78, 82, 59, 98, 63, 96, 24, 83, 27,
       32, 23, 55, 105, 48, 28, 62, 61, 33, 5, 68, 109, 58, 26, 4, 101, 105,
       43, 75, 56, 102, 38, 94, 17, 93, 28, 127, 20, 48, 18, 50, 4, 0, 99, 85,
       110, 74, 37, 73, 106, 127, 58, 25, 62, 29, 111, 93, 70, 103, 97, 61,
       86, 7, 3, 47, 117, 105, 16, 63, 42, 59, 45, 49, 72, 80, 57, 76, 91, 88,
       9, 110, 32, 96, 13, 47, 83, 32, 93, 100, 58, 101, 15, 118, 114, 25, 76,
       108, 42, 113, 108, 9, 95, 39, 31, 81, 16, 18, 96, 106, 119, 33, 13, 87,
       78, 37, 82, 27, 65, 26, 17, 63, 98, 91, 63, 27, 4, 87, 115, 42, 117,
       83, 66, 47, 1, 24, 107, 18, 36, 7, 33, 89, 105, 52, 7, 15, 96, 112, 77,
       83, 65, 2, 127, 92, 29, 76, 90, 56, 62, 64, 68, 123, 70, 47, 55, 81, 2,
       81, 121, 46, 18, 44, 51, 96, 56, 81, 82, 58, 92, 65, 75, 28, 56, 101,
       29, 2, 109, 82, 114, 58, 107, 28, 99, 75, 115, 74, 95, 11, 44, 62, 19,
       21, 1, 102, 34, 41, 88, 42, 38, 27, 123, 6, 58, 23, 25, 19, 1, 79, 20,
       108, 19, 28, 70, 14, 21, 68, 82, 14, 80, 51, 15, 97, 15, 26, 89, 89,
       26, 68, 2, 10, 99, 31, 28, 76, 72, 12, 31, 26, 55, 73, 100, 104, 118,
       66, 89, 84, 104, 1, 51, 38, 122, 40, 103, 116, 87, 45, 113, 100, 53, 4,
       73, 63, 5, 114, 51, 98, 103, 74, 61, 23, 4, 118, 81, 10, 99, 123, 32,
       99, 60, 92, 33, 67, 105, 20, 37, 43, 47, 84, 62, 83, 33, 49, 117, 102,
       37, 6, 14, 36, 74, 11, 62, 41, 105, 101, 17, 96, 92, 19, 39, 39, 49,
       14, 34, 84, 86, 56, 116, 29, 6, 47, 95, 110, 105, 54, 65, 88, 13, 80,
       124, 60, 27, 71, 113, 46, 92, 25, 5, 63, 80, 38, 77, 42, 55, 23, 98,
       116, 2, 54, 64, 25, 20, 4, 27, 27, 21, 111, 123, 43, 1, 85, 99, 29,
       108, 83, 123, 57, 31, 94, 45, 67, 108, 48, 24, 35, 89, 76, 115, 106,
       23, 88, 47, 61, 18, 42, 47, 114, 115, 108, 83, 18, 36, 86, 96, 98, 89,
       86, 94, 123, 10, 112, 7, 31, 92, 127, 38, 41, 71, 48, 105, 124, 100,
       21, 92, 50, 3, 80, 73, 34, 117, 34, 27, 101, 126, 78, 98, 95, 29, 101,
       15, 111, 3, 114, 26, 105, 48, 125, 24, 63, 83, 89, 85, 65, 27, 124, 21,
       83, 115, 55, 48, 84, 118, 37, 98, 16, 66, 49, 6, 17, 91, 0, 96, 11, 21,
       58, 14, 97, 60, 6, 9, 81, 41, 14, 22, 65, 74, 37, 83, 57, 111, 91, 37,
       52, 98, 50, 121, 93, 70, 14, 35, 44, 0, 89, 52, 106, 101, 125, 112, 32,
       59, 80, 116, 40, 112, 89, 33, 108, 44, 17, 67, 44, 83, 119, 80, 45, 26,
       80, 20, 104, 11, 35, 101, 100, 20, 0, 123, 43, 5, 21, 101, 44, 88, 27,
       64, 3, 5, 102, 3, 22, 41, 73, 87, 70, 29, 108, 16, 108, 41, 79, 91, 21,
       77, 97, 25, 12, 22, 118, 93, 39, 52, 32, 41, 27, 93, 50, 49, 101, 101,
       109, 37, 95, 118, 93, 5, 31, 38, 41, 29, 38, 105, 55, 98, 111, 24, 127,
       122, 10, 79, 123, 115, 117, 59, 58, 91, 88, 119, 100, 23, 23, 92, 78,
       56, 125, 6, 112, 48, 116, 62, 10, 115, 91, 71, 62, 115, 116, 119, 21,
       104, 70, 116, 15, 78, 102, 1, 92, 98, 3, 126, 39, 66, 18, 92, 81, 0,
       80, 113, 8, 111, 121, 126, 123, 122, 56, 11, 73, 52, 46, 125, 77, 110,
       50, 100, 56, 62, 95, 33, 23, 72, 38, 81, 97, 124, 28, 38, 8, 118, 116,
       18, 20, 117, 52, 83, 40, 71, 33, 98, 45, 50, 68, 95, 14, 47, 68, 65, 6,
       116, 10, 82, 25, 113, 30, 58, 43, 60, 37, 65, 107, 30, 84, 70, 60, 35,
       98, 24, 87, 73, 40, 40, 78, 75, 95, 61, 68, 53, 96, 29, 80, 114, 118,
       111, 33, 26, 85, 22, 125, 69, 67, 122, 115, 21, 12, 120, 92, 23, 33,
       106, 96, 61, 54, 76, 68, 34, 31, 64, 32, 11, 110, 77, 82, 103, 80, 116,
       14, 108, 37, 72, 123, 8, 26, 127, 68, 21, 89, 1, 65, 98, 70, 64, 124,
       102, 100, 81, 30, 81, 55, 89, 53, 127, 87, 108, 86, 50, 33, 79, 88, 23,
       55, 24, 1, 91, 37, 123, 48, 53, 25, 114, 85, 84, 127, 33, 119, 92, 80,
       85, 109, 50, 62, 36, 75, 93, 114, 29, 7, 85, 46, 32, 47, 122, 43, 67,
       54, 65, 7, 33, 86, 20, 122, 114, 29, 110, 23, 13, 42, 83, 101, 116, 28,
       21, 98, 74, 22, 40, 76, 67, 92, 117, 86, 77, 10, 4, 122, 6, 108, 86,
       61, 105, 110, 72, 76, 23, 21, 122, 50, 48, 105, 38, 59, 100, 5, 125,
       21, 18, 23, 119, 75, 48, 82, 80, 57, 21, 51, 102, 123, 49, 43, 15, 86,
       85, 26, 82, 65, 106, 22, 12, 14, 125, 43, 5, 14, 123, 48, 102, 83, 43,
       70, 51, 101, 93, 61, 34, 10, 103, 93, 117, 51, 6, 96, 98, 124, 116, 67,
       73, 32, 18, 45, 66, 63, 11, 40, 107, 12, 58, 50, 52, 83, 57, 104, 61,
       97, 36, 113, 79, 102, 7, 52, 31, 82, 116, 6, 98, 101, 94, 90, 73, 33,
       30, 60, 33, 34, 73, 101, 71, 54, 29, 99, 120, 118, 94, 99, 55, 48, 114,
       43, 113, 121, 112, 115, 103, 24, 40, 46, 107, 100, 36, 96, 105, 36, 87,
       57, 3, 123, 80, 11, 125, 35, 8, 85, 15, 116, 63, 121, 83, 60, 40, 101,
       107, 124, 54, 42, 49, 29, 67, 33, 9, 100, 108, 17, 22, 69, 95, 119, 9,
       25, 47, 80, 51, 67, 70, 123, 121, 65, 51, 62, 13, 115, 66, 96, 115, 18,
       11, 102, 79, 51, 121, 123, 91, 123, 119, 63, 24, 53, 101, 29, 29, 35,
       104, 26, 2, 21, 83, 93, 25, 6, 42, 76, 50, 76, 89, 94, 25, 72, 14, 118,
       51, 36, 107, 11, 105, 74, 117, 34, 112, 126, 97, 117, 4, 88, 96, 106,
       108, 31, 117, 62, 102, 49, 54, 44, 7, 47, 125, 61, 95, 83, 34, 3, 2,
       69, 114, 16, 4, 123, 62, 70, 121, 75, 49, 40, 121, 90, 59, 90, 96, 116,
       10, 74, 109, 34, 104, 80, 87, 6, 33, 95, 40, 39, 23, 92, 5, 16, 122,
       76, 114, 21, 72, 4, 105, 33, 65, 108, 20, 49, 78, 66, 28, 101, 3, 125,
       10, 33, 55, 88, 81, 100, 11, 101, 67, 44, 48, 60, 60, 100, 116, 32, 9,
       62, 124, 81, 94, 108, 43, 31, 68, 85, 43, 27, 0, 20, 102, 61, 90, 82,
       81, 81, 50, 121, 74, 21, 0, 67, 1, 61, 125, 33, 120, 117, 9, 18, 23,
       33, 106, 5, 17, 82, 116, 84, 73, 28, 61, 117, 81, 81, 106, 25, 25, 120,
       46, 109, 61, 40, 6, 110, 18, 16, 82, 44, 36, 53, 85, 122, 35, 38, 46,
       49, 47, 26, 111, 104, 76, 23, 111, 108, 111, 43, 111, 70, 4, 112, 100,
       34, 31, 67, 33, 81, 69, 73, 107, 52, 28, 82, 76, 40, 43, 19, 70, 1, 95,
       77, 6, 73, 4, 102, 58, 20, 63, 86, 54, 58, 108, 67, 19, 106, 123, 66,
       55, 55, 87, 82, 29, 18, 67, 111, 126, 66, 69, 5, 43, 61, 15, 121, 71,
       125, 64, 54, 40, 33, 54, 119, 15, 36, 114, 2, 33, 31, 39, 60, 105, 86,
       23, 8, 42, 42, 59, 93, 81, 44, 56, 22, 125, 91, 110, 55, 45, 88, 105,
       61, 28, 103, 83, 65, 23, 124, 77, 104, 31, 92, 78, 62, 110, 78, 10, 48,
       21, 9, 45, 113, 19, 103, 57, 98, 72, 109, 37, 70, 115, 127, 111, 60,
       49, 125, 40, 10, 25, 48, 39, 73, 78, 104, 28, 66, 7, 101, 41, 47, 38,
       86, 68, 101, 41, 76, 81, 2, 22, 84, 96, 0, 49, 38, 57, 14, 101, 97,
       106, 21, 87, 92, 92, 9, 3, 26, 30, 88, 86, 118, 55, 9, 124, 78, 87, 50,
       20, 79, 26, 9, 56, 2, 72, 10, 100, 114, 86, 62, 52, 78, 4, 17, 61, 87,
       55, 115, 75, 25, 17, 99, 83, 108, 0, 127, 7, 72, 93, 82, 93, 44, 16,
       99, 25, 39, 99, 79, 117, 80, 97, 126, 110, 100, 65, 12, 38, 22, 52, 45,
       92, 50, 8, 91, 75, 33, 98, 71, 69, 57, 53, 39, 120, 82, 5, 55, 28, 125,
       6, 16, 39, 115, 61, 81, 88, 58, 108, 9, 37, 82, 91, 102, 68, 44, 49,
       91, 80, 68, 116, 11, 76, 109, 4, 39, 28, 61, 33, 97, 54, 112, 12, 109,
       113, 47, 1, 108, 126, 19, 43, 70, 123, 55, 2, 110, 114, 92, 88, 84, 18,
       103, 39, 44, 15, 56, 50, 13, 18, 44, 7, 25, 18, 93, 23, 16, 58, 117,
       81, 76, 102, 57, 65, 15, 33, 57, 72, 72, 20, 18, 4, 125, 101, 46, 9,
       55, 10, 36, 101, 47, 82, 35, 114, 109, 101, 9, 27, 46, 29, 76, 64, 61,
       119, 41, 23, 61, 36, 8, 108, 39, 23, 55, 112, 98, 19, 55, 77, 53, 2,
       83, 111, 35, 101, 70, 34, 24, 49, 78, 49, 69, 56, 83, 20, 111, 80, 101,
       110, 126, 108, 29, 11, 122, 102, 56, 57, 46, 92, 58, 15, 117, 72, 122,
       108, 103, 117, 38, 79, 15, 34, 26, 24, 86, 82, 89, 12, 8, 29, 0, 82,
       127, 79, 43, 120, 5, 116, 59, 96, 12, 70, 104, 42, 67, 65, 78, 65, 118,
       127, 15, 107, 27, 38, 100, 121, 77, 102, 56, 0, 45, 92, 79, 80, 120,
       109, 121, 58, 117, 116, 125, 124, 16, 55, 3, 127, 106, 118, 31, 65, 66,
       111, 59, 103, 124, 25, 56, 102, 17, 35, 26, 116, 115, 17, 104, 31, 17,
       19, 123, 38, 47, 102, 93, 23, 72, 49, 109, 64, 62, 116, 3, 96, 71, 15,
       108, 31, 52, 72, 105, 10, 57, 13, 45, 20, 45, 58, 29, 118, 64, 74, 122,
       99, 75, 85, 98, 62, 22, 15, 47, 5, 74, 5, 49, 80, 1, 67, 111, 117, 16,
       1, 84, 101, 125, 23, 37, 89, 34, 37, 42, 76, 69, 94, 125, 118, 18, 89,
       31, 103, 114, 69, 35, 40, 85, 49, 92, 66, 0, 47, 3, 77, 97, 88, 117,
       113, 88, 53, 59, 47, 12, 76, 67, 37, 14, 125, 41, 41, 4, 116, 65, 58,
       59, 90, 36, 51, 28, 10, 8, 30, 3, 1, 16, 103, 125, 9, 4, 62, 91, 91,
       58, 83, 75, 121, 39, 117, 125, 51, 103, 53, 51, 105, 55, 85, 117, 105,
       20, 19, 111, 121, 79, 13, 72, 25, 68, 119, 75, 107, 11, 79, 31, 63, 45,
       31, 28, 91, 10, 4, 91, 9, 53, 28, 94, 48, 50, 2, 120, 109, 31, 41, 65,
       87, 54, 102, 101, 101, 16, 19, 69, 8, 58, 55, 79, 126, 29, 1, 69, 19,
       126, 118, 13, 14, 124, 62, 123, 119, 57, 11, 10, 76, 63, 6, 123, 57, 0,
       34, 96, 21, 99, 121, 14, 28, 77, 95, 18, 117, 12, 94, 66, 108, 38, 38,
       84, 95, 67, 60, 29, 30, 117, 8, 0, 74, 102, 55, 36, 62, 115, 90, 77,
       60, 58, 71, 27, 86, 109, 83, 109, 77, 122, 73, 75, 46, 118, 103, 114,
       104, 85, 106, 43, 34, 77, 60, 43, 80, 104, 72, 70, 63, 110, 5, 114,
       116, 96, 18, 25, 75, 42, 68, 10, 105, 42, 39, 20, 51, 38, 66, 101, 69,
       15, 11, 117, 71, 117, 49, 98, 114, 30, 81, 37, 63, 58, 47, 79, 103,
       118, 75, 2, 23, 11, 23, 105, 48, 2, 94, 114, 49, 23, 10, 124, 80, 60,
       44, 77, 54, 105, 73, 105, 110, 53, 22, 58, 7, 100, 15, 32, 67, 38, 11,
       111, 125, 112, 50, 105, 28, 44, 120, 43, 99, 13, 30, 106, 103, 6, 105,
       23, 6, 3, 24, 58, 78, 127, 45, 9, 14, 32, 113, 34, 89, 89, 109, 45, 9,
       22, 59, 88, 125, 115, 124, 21, 71, 8, 36, 52, 23, 119, 47, 7, 95, 17,
       60, 82, 7, 97, 83, 57, 117, 5, 17, 70, 126, 12, 36, 9, 95, 7, 63, 119,
       28, 13, 89, 60, 125, 105, 20, 25, 106, 49, 79, 101, 84, 72, 96, 24, 41,
       68, 103, 127, 48, 104, 113, 123, 34, 3, 110>>)
    @@
    (22 :> <<
       122, 116, 17, 31, 3, 78, 127, 57, 23, 89, 15, 94, 83, 112, 44, 101,
       113, 10, 29, 34, 122, 6, 40, 124, 76, 22, 119, 70, 87, 93, 118, 55, 90,
       113, 6, 73, 112, 2, 75, 33, 39, 53, 24, 23, 108, 14, 74, 67, 120, 93,
       99, 125, 123, 121, 72, 7, 89, 41, 78, 42, 33, 23, 122, 50, 39, 115, 99,
       111, 122, 122, 83, 65, 18, 35, 105, 34, 85, 88, 23, 55, 6, 43, 68, 115,
       4, 53, 118, 32, 64, 36, 66, 112, 52, 50, 84, 118, 117, 23, 39, 72, 47,
       50, 74, 3, 38, 73, 76, 71, 69, 67, 55, 96, 86, 115, 67, 54, 11, 11,
       127, 56, 45, 12, 55, 99, 51, 7, 118, 107, 121, 25, 65, 30, 51, 0, 12,
       58, 114, 24, 21, 3, 69, 48, 44, 22, 42, 116, 45, 80, 24, 56, 4, 8, 68,
       17, 101, 99, 82, 94, 25, 83, 88, 12, 6, 24, 52, 15, 105, 18, 117, 75,
       58, 5, 108, 15, 63, 90, 67, 17, 74, 36, 126, 87, 95, 109, 60, 60, 93,
       8, 82, 91, 45, 122, 100, 14, 104, 103, 77, 33, 120, 15, 2, 23, 64, 44,
       81, 8, 43, 12, 21, 80, 88, 76, 55, 89, 34, 22, 5, 9, 123, 24, 45, 86,
       15, 127, 27, 68, 32, 62, 110, 8, 23, 2, 35, 96, 12, 74, 60, 79, 26, 51,
       44, 15, 94, 116, 118, 67, 106, 23, 4, 30, 48, 107, 108, 79, 4, 26, 26,
       96, 62, 81, 48, 6, 96, 88, 91, 53, 59, 32, 31, 113, 29, 14, 34, 118, 8,
       119, 85, 72, 20, 22, 113, 123, 82, 40, 7, 3, 63, 20, 77, 35, 5, 108,
       62, 89, 3, 35, 98, 98, 0, 27, 80, 103, 126, 57, 108, 84, 29, 56, 68,
       55, 17, 45, 43, 33, 110, 124, 104, 88, 1, 89, 48, 77, 81, 13, 22, 108,
       102, 122, 114, 79, 70, 82, 46, 35, 108, 108, 65, 33, 24, 33, 35, 67,
       20, 44, 107, 101, 65, 63, 89, 63, 104, 17, 124, 68, 24, 63, 51, 43,
       111, 112, 97, 9, 49, 85, 83, 67, 24, 90, 20, 10, 6, 117, 48, 43, 30, 6,
       66, 67, 124, 108, 19, 25, 71, 46, 110, 121, 76, 0, 67, 41, 98, 98, 2,
       14, 121, 64, 87, 6, 103, 80, 105, 8, 12, 73, 8, 117, 22, 32, 64, 38,
       120, 40, 116, 116, 52, 73, 79, 67, 94, 70, 42, 41, 124, 86, 120, 101,
       93, 6, 115, 29, 102, 65, 83, 121, 41, 86, 36, 0, 30, 31, 7, 15, 118,
       40, 38, 113, 3, 119, 40, 14, 13, 116, 56, 105, 42, 117, 22, 20, 61, 36,
       53, 50, 45, 17, 104, 51, 39, 30, 69, 29, 112, 79, 122, 116, 47, 115, 5,
       59, 121, 35, 65, 69, 27, 11, 16, 105, 30, 96, 39, 71, 17, 56, 6, 32,
       127, 31, 104, 19, 14, 71, 61, 41, 102, 21, 64, 48, 8, 86, 43, 26, 48,
       16, 117, 85, 74, 114, 58, 55, 80, 68, 6, 50, 87, 58, 103, 109, 85, 56,
       46, 26, 36, 88, 1, 119, 10, 14, 19, 107, 58, 96, 99, 10, 27, 72, 60,
       101, 81, 34, 80, 16, 2, 97, 117, 20, 74, 100, 38, 68, 30, 75, 88, 25,
       119, 101, 43, 94, 50, 57, 71, 91, 22, 99, 51, 85, 117, 57, 71, 102,
       105, 54, 33, 99, 111, 26, 100, 31, 28, 82, 67, 34, 87, 37, 73, 5, 77,
       118, 30, 78, 70, 30, 45, 58, 102, 103, 47, 125, 125, 15, 74, 95, 29,
       44, 53, 47, 16, 123, 94, 17, 5, 70, 77, 64, 39, 83, 99, 13, 16, 103,
       87, 65, 91, 117, 29, 50, 16, 13, 47, 64, 83, 94, 33, 1, 1, 21, 56, 127,
       103, 42, 20, 61, 120, 20, 65, 76, 20, 90, 12, 33, 47, 15, 60, 21, 22,
       91, 10, 88, 64, 85, 32, 87, 56, 68, 57, 41, 89, 100, 73, 41, 29, 108,
       23, 95, 109, 81, 6, 78, 15, 46, 8, 1, 105, 67, 69, 123, 118, 52, 80,
       122, 42, 121, 55, 98, 93, 12, 29, 109, 102, 124, 52, 33, 5, 72, 43, 78,
       71, 34, 18, 92, 115, 41, 118, 51, 65, 12, 115, 3, 88, 44, 68, 9, 20,
       56, 121, 104, 117, 1, 57, 84, 49, 54, 9, 46, 79, 3, 109, 61, 49, 27,
       36, 14, 78, 71, 101, 115, 21, 119, 36, 127, 82, 14, 5, 59, 104, 25, 40,
       51, 106, 23, 58, 30, 21, 8, 2, 127, 14, 24, 33, 53, 96, 82, 101, 62,
       80, 35, 39, 77, 84, 45, 93, 34, 47, 39, 10, 71, 60, 124, 28, 18, 24,
       54, 49, 19, 9, 103, 114, 99, 35, 96, 114, 46, 94, 117, 1, 103, 115,
       117, 103, 58, 67, 78, 113, 65, 61, 24, 3, 27, 19, 93, 39, 5, 109, 3,
       106, 63, 15, 70, 44, 28, 14, 81, 29, 122, 45, 123, 53, 21, 19, 33, 84,
       116, 30, 100, 113, 78, 61, 87, 54, 14, 98, 110, 44, 17, 32, 17, 15, 98,
       37, 124, 30, 116, 94, 87, 45, 44, 90, 127, 35, 78, 8, 85, 39, 86, 50,
       71, 116, 28, 25, 81, 27, 17, 19, 40, 32, 16, 122, 8, 119, 86, 29, 117,
       6, 74, 62, 106, 74, 37, 14, 15, 53, 11, 98, 115, 0, 94, 91, 2, 87, 81,
       100, 78, 62, 96, 59, 52, 66, 86, 17, 96, 65, 97, 30, 22, 41, 33, 5, 40,
       20, 10, 7, 96, 69, 56, 30, 102, 71, 64, 64, 46, 29, 124, 16, 35, 76,
       41, 86, 124, 88, 5, 64, 8, 74, 86, 3, 3, 39, 120, 102, 66, 48, 49, 13,
       45, 53, 65, 106, 64, 12, 46, 14, 121, 63, 77, 111, 45, 49, 27, 31, 76,
       98, 17, 12, 126, 37, 7, 76, 92, 108, 105, 110, 49, 41, 104, 34, 106,
       46, 92, 15, 122, 34, 43, 98, 113, 125, 46, 34, 105, 9, 35, 94, 44, 123,
       40, 101, 36, 52, 70, 95, 22, 97, 103, 95, 12, 63, 20, 127, 30, 99, 22,
       30, 90, 55, 83, 11, 104, 47, 59, 104, 83, 62, 57, 67, 124, 99, 57, 11,
       102, 45, 122, 61, 14, 63, 38, 87, 35, 119, 18, 102, 114, 69, 77, 87,
       56, 68, 38, 126, 56, 76, 108, 76, 122, 50, 51, 53, 31, 97, 60, 47, 63,
       115, 15, 93, 61, 122, 39, 90, 112, 72, 13, 46, 123, 2, 92, 84, 44, 96,
       96, 92, 109, 97, 114, 4, 61, 87, 121, 35, 100, 49, 1, 111, 31, 51, 44,
       59, 27, 6, 48, 23, 125, 26, 45, 27, 6, 66, 33, 6, 46, 11, 3, 11, 96,
       93, 53, 124, 76, 96, 95, 65, 86, 16, 72, 100, 102, 16, 65, 9, 74, 65,
       15, 110, 69, 39, 4, 110, 50, 42, 24, 123, 11, 94, 5, 110, 10, 126, 91,
       104, 100, 25, 68, 66, 22, 69, 64, 92, 88, 29, 12, 73, 20, 36, 36, 23,
       34, 57, 43, 102, 6, 70, 52, 45, 48, 28, 37, 45, 79, 51, 86, 34, 31, 39,
       118, 29, 6, 37, 36, 86, 9, 80, 19, 80, 118, 118, 75, 85, 113, 16, 127,
       51, 44, 67, 81, 95, 38, 67, 65, 11, 76, 60, 16, 83, 122, 100, 68, 57,
       119, 27, 37, 4, 20, 64, 112, 95, 2, 14, 73, 66, 119, 76, 94, 71, 75,
       29, 32, 11, 96, 2, 50, 39, 121, 114, 34, 53, 13, 126, 20, 105, 96, 74,
       34, 56, 38, 71, 73, 107, 8, 42, 93, 19, 100, 115, 32, 80, 5, 48, 38,
       51, 5, 12, 112, 72, 67, 100, 113, 63, 93, 89, 11, 94, 103, 42, 97, 81,
       81, 124, 38, 91, 66, 23, 80, 84, 17, 82, 25, 99, 77, 89, 83, 116, 97,
       124, 77, 26, 119, 61, 115, 5, 62, 126, 53, 13, 75, 54, 109, 78, 89, 54,
       114, 21, 40, 64, 15, 28, 113, 62, 119, 91, 51, 38, 68, 57, 31, 80, 39,
       68, 67, 102, 92, 114, 29, 123, 52, 21, 92, 61, 99, 15, 88, 89, 55, 50,
       29, 108, 63, 61, 101, 102, 77, 3, 119, 78, 32, 52, 75, 106, 69, 13, 30,
       11, 82, 88, 31, 41, 66, 55, 107, 51, 19, 126, 108, 79, 54, 106, 68,
       107, 26, 109, 43, 57, 7, 37, 89, 65, 87, 114, 31, 113, 119, 61, 24,
       116, 106, 97, 42, 5, 21, 81, 92, 101, 20, 5, 29, 48, 64, 82, 70, 64,
       10, 67, 119, 11, 48, 33, 2, 111, 55, 44, 95, 61, 46, 75, 50, 36, 5, 53,
       110, 64, 91, 111, 20, 107, 81, 22, 121, 64, 32, 96, 98, 114, 65, 67,
       41, 80, 46, 82, 17, 85, 82, 114, 56, 126, 127, 126, 1, 15, 57, 91, 82,
       49, 125, 35, 63, 12, 24, 116, 110, 114, 97, 67, 121, 63, 65, 26, 6,
       118, 118, 96, 16, 21, 72, 73, 20, 127, 2, 33, 119, 47, 2, 46, 3, 47,
       87, 15, 91, 80, 6, 31, 93, 87, 103, 59, 26, 107, 76, 95, 51, 109, 8,
       19, 105, 101, 32, 99, 13, 37, 66, 0, 87, 12, 119, 98, 110, 123, 67, 8,
       30, 31, 117, 51, 71, 8, 84, 82, 83, 109, 117, 107, 126, 22, 78, 116,
       119, 100, 103, 19, 95, 109, 41, 119, 60, 112, 12, 96, 68, 104, 11, 68,
       73, 1, 2, 86, 3, 63, 39, 18, 0, 17, 34, 113, 101, 115, 86, 6, 45, 2,
       79, 89, 33, 37, 57, 111, 81, 59, 126, 91, 73, 5, 127, 99, 4, 25, 2, 54,
       90, 62, 78, 41, 44, 31, 115, 57, 81, 6, 87, 20, 100, 16, 96, 109, 114,
       39, 8, 125, 105, 115, 44, 21, 120, 109, 110, 126, 124, 56, 113, 61, 82,
       86, 67, 62, 65, 33, 43, 93, 27, 28, 20, 49, 119, 2, 5, 41, 34, 103, 29,
       17, 6, 24, 1, 50, 65, 38, 77, 0, 107, 6, 62, 25, 48, 101, 15, 99, 19,
       103, 85, 88, 110, 127, 117, 33, 1, 90, 32, 57, 47, 122, 96, 56, 27, 92,
       12, 99, 2, 123, 86, 97, 6, 41, 55, 83, 119, 101, 34, 120, 19, 31, 17,
       93, 9, 92, 89, 20, 67, 15, 113, 71, 45, 76, 37, 42, 87, 79, 34, 18, 90,
       73, 67, 68, 97, 106, 66, 92, 112, 10, 4, 71, 2, 16, 43, 67, 115, 86,
       21, 90, 89, 1, 10, 68, 8, 22, 9, 64, 101, 63, 73, 62, 17, 97, 68, 38,
       34, 60, 114, 31, 76, 25, 105, 80, 62, 20, 62, 102, 102, 47, 89, 14, 98,
       100, 19, 2, 10, 37, 14, 83, 37, 2, 26, 89, 127, 71, 19, 124, 56, 40,
       21, 106, 56, 125, 18, 63, 99, 9, 54, 43, 4, 104, 61, 0, 70, 81, 30, 66,
       53, 94, 57, 47, 6, 119, 82, 14, 73, 53, 127, 39, 50, 71, 17, 27, 125,
       49, 80, 57, 7, 118, 0, 3, 98, 36, 49, 18, 71, 91, 8, 98, 87, 2, 25,
       100, 52, 112, 64, 59, 70, 76, 78, 101, 58, 118, 87, 28, 46, 90, 22, 10,
       41, 46, 107, 116, 55, 80, 7, 68, 9, 57, 26, 58, 83, 3, 126, 71, 48,
       120, 12, 15, 83, 4, 16, 79, 75, 105, 92, 55, 24, 10, 121, 82, 118, 84,
       122, 29, 82, 104, 86, 69, 11, 100, 40, 30, 103, 46, 54, 84, 71, 85, 82,
       108, 41, 120, 36, 92, 87, 1, 66, 59, 51, 85, 127, 99, 57, 40, 102, 7,
       52, 74, 97, 24, 56, 66, 114, 29, 55, 112, 106, 3, 121, 71, 35, 112, 55,
       82, 54, 18, 90, 70, 112, 105, 25, 80, 12, 115, 34, 104, 46, 48, 86, 15,
       24, 88, 33, 61, 115, 104, 29, 56, 116, 92, 23, 18, 31, 96, 14, 110, 45,
       103, 63, 99, 22, 85, 35, 21, 121, 42, 126, 35, 22, 37, 11, 74, 14, 46,
       13, 84, 3, 114, 39, 127, 122, 0, 97, 78, 30, 74, 73, 55, 98, 94, 37,
       112, 81, 31, 2, 81, 21, 20, 101, 56, 0, 45, 51, 104, 87, 116, 4, 111,
       101, 66, 54, 90, 63, 83, 5, 69, 125, 17, 84, 34, 32, 122, 62, 76, 80,
       14, 56, 45, 17, 17, 13, 16, 82, 48, 115, 37, 15, 2, 51, 63, 28, 118,
       75, 59, 77, 51, 54, 48, 34, 34, 86, 41, 120, 24, 8, 54, 20, 117, 80,
       46, 65, 112, 58, 63, 22, 81, 69, 61, 109, 50, 43, 113, 4, 75, 90, 24,
       52, 39, 12, 50, 94, 72, 74, 48, 103, 33, 33, 38, 95, 127, 57, 94, 35,
       110, 91, 114, 32, 18, 81, 68, 70, 92, 60, 62, 10, 67, 45, 80, 97, 80,
       90, 22, 95, 6, 80, 34, 64, 4, 2, 39, 118, 4, 42, 13, 110, 84, 109, 24,
       62, 91, 91, 53, 92, 107, 15, 71, 77, 111, 15, 54, 124, 53, 32, 118, 85,
       87, 14, 54, 53, 111, 88, 93, 37, 82, 87, 3, 2, 113, 47, 13, 55, 2, 66,
       43, 94, 24, 109, 30, 85, 62, 100, 64, 52, 87, 74, 110, 36, 88, 109,
       110, 13, 55, 115, 18, 74, 90, 42, 127, 112, 21, 23, 78, 114, 49, 36,
       125, 48, 4, 78, 61, 33, 45, 112, 47, 110, 95, 48, 0, 71, 35, 73, 123,
       47, 58, 117, 1, 21, 79, 19, 84, 78, 118, 29, 113, 93, 121, 81, 33, 12,
       40, 31, 89, 64, 44, 2, 48, 35, 5, 59, 25, 86, 17, 48, 47, 1, 89, 120,
       24, 28, 36, 47, 10, 72, 52, 92, 75, 122, 76, 83, 82, 97, 68, 78, 89,
       97, 102, 105, 107, 3, 0, 7, 119, 68, 61, 96, 127, 64, 97, 101, 59, 15,
       5, 80, 12, 60, 99, 108, 0, 29, 6, 58, 89, 47, 77, 89, 86, 27, 8, 120,
       122, 110, 95, 90, 1, 111, 72, 20, 41, 123, 29, 28, 78, 52, 125, 105, 4,
       57, 103, 5, 119, 57, 11, 23, 114, 8, 1, 7, 41, 76, 2, 67, 22, 43, 21,
       49, 71, 42, 55, 117, 123, 14, 96, 113, 9, 119, 9, 65, 35, 80, 104, 121,
       102, 22, 107, 2, 110, 43, 93, 127, 71, 19, 107, 42, 105, 110, 104, 71,
       112, 114, 68, 58, 11, 83, 79, 38, 89, 121, 121, 21, 95, 113, 114, 122,
       116, 54, 41, 85, 118, 59, 72, 94, 55, 11, 56, 127, 63, 61, 53, 102, 92,
       68, 32, 34, 55, 19, 83, 69, 124, 55, 93, 81, 71, 41, 47, 67, 84, 8,
       118, 86, 2, 63, 49, 34, 36, 14, 99, 61, 85, 11, 0, 112, 114, 61, 52,
       88, 17, 42, 12, 12, 9, 53, 31, 27, 10, 109, 90, 4, 17, 13, 55, 115, 84,
       5, 56, 86, 37, 79, 58, 46, 58, 119, 74, 35, 75, 37, 40, 107, 87, 35,
       109, 8, 123, 71, 79, 98, 37, 44, 0, 50, 55, 41, 126, 82, 126, 62, 90,
       84, 24, 48, 25, 94, 19, 71, 55, 22, 121, 52, 26, 80, 104, 96, 70, 53,
       34, 40, 58, 113, 6, 77, 81, 120, 115, 112, 41, 56, 124, 48, 36, 88, 45,
       95, 88, 38, 27, 36, 4, 38, 63, 31, 62, 52, 20, 63, 22, 98, 14, 8, 24,
       52, 19, 37, 83, 37, 113, 36, 76, 98, 29, 7, 70, 95, 122, 107, 45, 61,
       93, 109, 0, 119, 98, 32, 109, 38, 69, 95, 114, 37, 76, 60, 100, 51, 62,
       87, 49, 92, 34, 113, 71, 113, 98, 103, 4, 94, 85, 96, 4, 4, 82, 105,
       91, 4, 117, 125, 83, 7, 83, 23, 87, 33, 86, 7, 88, 23, 87, 27, 108, 93,
       45, 105, 121, 87, 24, 50, 5, 45, 6, 66, 70, 6, 109, 81, 15, 14, 113,
       59, 63, 41, 84, 125, 21, 18, 127, 75, 59, 2, 30, 74, 79, 20, 5, 47, 83,
       109, 107, 41, 15, 98, 32, 99, 35, 28, 24, 89, 79, 82, 104, 118, 58, 14,
       88, 55, 116, 119, 104, 53, 48, 124, 114, 118, 23, 43, 105, 74, 10, 71,
       40, 58, 13, 80, 72, 120, 14, 52, 77, 17, 21, 29, 86, 104, 63, 85, 39,
       58, 17, 79, 96, 8, 24, 52, 42, 55, 117, 84, 112, 66, 92, 17, 81, 99,
       107, 17, 107, 1, 106, 105, 96, 87, 53, 95, 96, 77, 50, 65, 72, 74, 3,
       111, 20, 105, 86, 122, 10, 64, 12, 64, 111, 5, 114, 5, 124, 92, 101,
       117, 38, 108, 77, 49, 66, 72, 10, 6, 20, 70, 78, 75, 54, 75, 73, 110,
       118, 2, 9, 59, 20, 17, 125, 68, 14, 74, 47, 79, 70, 72, 34, 19, 49,
       106, 21, 22, 103, 22, 28, 104, 92, 34, 58, 75, 64, 125, 10, 35, 113,
       81, 1, 25, 110, 76, 2, 83, 48, 31, 56, 115, 78, 32, 33, 34, 127, 74,
       44, 49, 28, 59, 94, 0, 84, 102, 77, 19, 122, 94, 112, 73, 39, 12, 114,
       95, 114, 117, 7, 71, 65, 86, 111, 46, 51, 36, 43, 112, 62, 87, 108, 11,
       1, 8, 84, 0, 90, 126, 122, 97, 82, 92, 34, 41, 83, 72, 93, 68, 16, 58,
       99, 93, 76, 10, 75, 21, 83, 27, 79, 93, 19, 7, 18, 20, 0, 62, 40, 89,
       27, 22, 76, 66, 12, 102, 16, 103, 66, 24, 100, 98, 61, 37, 7, 56, 118,
       96, 71, 14, 117, 8, 96, 3, 115, 32, 104, 77, 95, 85, 110, 66, 86, 75,
       124, 93, 117, 13, 21, 88, 61, 14, 120, 29, 86, 110, 79, 79, 53, 65, 10,
       30, 54, 103, 0, 68, 21, 107, 58, 58, 56, 24, 81, 38, 75, 3, 97, 66>>)
    @@
    (23 :> <<
       118, 99, 121, 37, 114, 106, 10, 2, 75, 39, 54, 48, 67, 45, 16, 92, 24,
       34, 56, 1, 28, 79, 58, 115, 3, 13, 10, 125, 90, 63, 53, 2, 65, 80, 93,
       55, 45, 98, 7, 26, 100, 4, 75, 47, 84, 22, 79, 27, 124, 94, 46, 72, 97,
       110, 47, 123, 73, 36, 84, 124, 40, 73, 10, 104, 60, 22, 91, 61, 75,
       101, 57, 86, 82, 20, 23, 102, 22, 68, 41, 86, 104, 66, 25, 74, 14, 10,
       12, 54, 4, 72, 35, 120, 73, 35, 105, 75, 42, 13, 47, 115, 36, 69, 39,
       114, 99, 58, 70, 27, 33, 19, 13, 79, 100, 15, 90, 101, 106, 63, 30, 42,
       69, 18, 117, 95, 75, 12, 121, 49, 21, 57, 124, 4, 7, 80, 53, 50, 2, 20,
       103, 28, 87, 1, 124, 28, 103, 94, 121, 7, 68, 120, 126, 56, 95, 11, 44,
       2, 124, 100, 48, 62, 24, 4, 9, 33, 59, 70, 25, 96, 119, 58, 121, 37,
       27, 11, 13, 71, 67, 83, 21, 88, 69, 71, 104, 30, 32, 12, 53, 21, 115,
       1, 56, 97, 43, 84, 114, 53, 104, 21, 114, 78, 88, 103, 52, 8, 88, 122,
       106, 114, 81, 95, 30, 69, 37, 54, 52, 38, 98, 110, 71, 78, 70, 6, 105,
       36, 13, 3, 80, 17, 42, 123, 71, 93, 106, 55, 31, 21, 121, 84, 10, 43,
       71, 88, 69, 14, 30, 113, 71, 122, 60, 102, 57, 126, 91, 34, 0, 43, 48,
       3, 100, 122, 18, 95, 111, 51, 26, 101, 87, 3, 22, 83, 57, 95, 54, 122,
       10, 53, 89, 35, 61, 76, 88, 126, 69, 92, 71, 22, 67, 68, 38, 33, 115,
       127, 11, 28, 112, 7, 110, 113, 63, 48, 99, 2, 86, 58, 77, 52, 37, 87,
       40, 52, 44, 103, 38, 35, 122, 119, 43, 20, 49, 5, 53, 113, 104, 85, 61,
       96, 70, 113, 32, 68, 35, 88, 11, 49, 27, 114, 33, 126, 109, 18, 64, 47,
       14, 79, 59, 126, 15, 35, 72, 98, 56, 0, 109, 4, 33, 100, 108, 14, 31,
       97, 125, 72, 81, 60, 5, 52, 103, 10, 35, 25, 46, 72, 18, 79, 107, 99,
       11, 23, 94, 65, 50, 78, 86, 46, 37, 126, 10, 79, 117, 89, 83, 77, 21,
       5, 124, 15, 116, 95, 23, 126, 2, 17, 78, 87, 17, 119, 93, 37, 60, 114,
       90, 37, 72, 101, 98, 6, 105, 5, 77, 97, 75, 13, 41, 3, 17, 44, 11, 20,
       109, 27, 26, 123, 54, 126, 40, 96, 79, 28, 68, 75, 109, 120, 55, 84,
       46, 68, 83, 28, 95, 71, 118, 94, 39, 58, 113, 84, 125, 122, 125, 81,
       16, 45, 48, 125, 99, 39, 106, 118, 5, 62, 50, 44, 92, 26, 97, 83, 68,
       20, 26, 40, 52, 54, 7, 5, 40, 94, 54, 60, 105, 20, 75, 119, 53, 46, 31,
       122, 40, 4, 85, 37, 57, 104, 22, 51, 105, 47, 73, 63, 123, 2, 68, 115,
       79, 80, 54, 104, 77, 23, 117, 56, 125, 24, 84, 98, 55, 125, 8, 58, 107,
       0, 50, 81, 48, 32, 7, 94, 4, 53, 49, 44, 124, 120, 94, 85, 90, 125, 85,
       111, 34, 92, 21, 18, 77, 125, 8, 96, 75, 103, 65, 59, 69, 96, 15, 118,
       8, 54, 60, 87, 18, 125, 82, 102, 39, 15, 79, 2, 96, 66, 77, 26, 68, 82,
       25, 109, 44, 100, 125, 39, 34, 90, 36, 55, 63, 116, 69, 120, 101, 69,
       37, 43, 123, 94, 2, 28, 101, 85, 72, 100, 115, 71, 19, 8, 88, 99, 121,
       17, 85, 118, 14, 89, 117, 39, 124, 32, 14, 122, 105, 74, 10, 106, 10,
       123, 101, 4, 92, 61, 122, 119, 80, 4, 65, 33, 34, 69, 73, 53, 127, 81,
       82, 0, 112, 117, 25, 117, 94, 84, 93, 86, 9, 84, 104, 16, 22, 106, 27,
       62, 7, 94, 84, 114, 18, 33, 124, 118, 0, 76, 103, 49, 97, 5, 72, 97,
       73, 53, 102, 5, 81, 2, 17, 18, 101, 1, 45, 82, 74, 120, 65, 71, 115,
       124, 53, 1, 109, 63, 10, 58, 41, 36, 85, 91, 78, 4, 106, 21, 26, 39,
       102, 107, 101, 14, 18, 20, 17, 104, 74, 85, 124, 14, 78, 107, 54, 96,
       64, 25, 103, 21, 66, 86, 68, 82, 75, 76, 119, 114, 102, 26, 107, 8, 34,
       84, 76, 12, 105, 74, 91, 103, 121, 107, 117, 96, 16, 14, 65, 55, 45, 8,
       26, 86, 64, 48, 125, 42, 98, 103, 12, 91, 31, 18, 47, 80, 113, 54, 58,
       27, 20, 71, 70, 101, 31, 42, 4, 72, 75, 124, 126, 12, 99, 16, 94, 110,
       19, 8, 71, 47, 81, 4, 97, 4, 57, 104, 6, 20, 118, 113, 33, 44, 94, 26,
       59, 90, 99, 86, 43, 38, 11, 102, 54, 116, 61, 101, 101, 13, 51, 68, 85,
       48, 48, 82, 93, 2, 22, 72, 112, 83, 120, 8, 3, 4, 109, 118, 99, 42, 88,
       18, 13, 108, 93, 85, 98, 83, 80, 108, 123, 42, 121, 50, 81, 121, 118,
       89, 18, 52, 38, 16, 67, 35, 66, 69, 121, 76, 81, 103, 79, 72, 79, 80,
       121, 65, 51, 86, 94, 22, 76, 34, 51, 92, 43, 93, 19, 104, 1, 114, 43,
       100, 38, 70, 10, 112, 62, 61, 44, 91, 118, 6, 99, 52, 85, 96, 108, 10,
       35, 22, 14, 2, 78, 78, 29, 115, 126, 46, 54, 114, 113, 106, 31, 77, 11,
       104, 80, 67, 88, 33, 32, 120, 118, 25, 124, 27, 87, 22, 125, 68, 125,
       125, 18, 62, 93, 41, 95, 98, 93, 52, 43, 47, 69, 28, 75, 54, 108, 95,
       6, 95, 48, 114, 40, 75, 101, 94, 14, 8, 7, 16, 14, 23, 14, 111, 55, 36,
       110, 16, 45, 21, 12, 115, 85, 46, 42, 37, 73, 111, 95, 103, 58, 117,
       93, 127, 79, 26, 109, 72, 97, 50, 115, 76, 95, 76, 36, 126, 64, 4, 98,
       83, 100, 20, 93, 81, 107, 4, 105, 58, 69, 50, 81, 83, 5, 16, 61, 1, 93,
       46, 116, 100, 108, 81, 56, 99, 29, 69, 113, 18, 84, 91, 24, 90, 4, 35,
       112, 102, 73, 24, 14, 39, 126, 62, 75, 113, 97, 0, 103, 34, 32, 62, 66,
       61, 22, 108, 78, 126, 55, 53, 101, 25, 14, 90, 26, 119, 49, 124, 0,
       111, 52, 15, 123, 94, 110, 34, 23, 34, 106, 104, 28, 27, 30, 0, 81, 87,
       37, 65, 25, 53, 10, 123, 22, 52, 24, 25, 116, 124, 5, 103, 69, 115, 27,
       9, 92, 2, 0, 23, 47, 4, 94, 73, 3, 65, 52, 89, 41, 73, 61, 112, 80, 98,
       10, 113, 110, 28, 34, 7, 98, 115, 17, 0, 12, 7, 24, 13, 10, 127, 31,
       120, 17, 108, 11, 88, 109, 56, 67, 34, 63, 62, 65, 91, 103, 102, 5,
       111, 5, 70, 85, 21, 0, 41, 64, 105, 79, 60, 108, 105, 0, 73, 51, 30,
       40, 77, 74, 84, 4, 42, 96, 119, 122, 66, 70, 108, 85, 118, 106, 64,
       108, 119, 104, 22, 62, 46, 11, 26, 101, 36, 107, 118, 89, 105, 40, 81,
       124, 84, 79, 95, 39, 37, 100, 96, 28, 53, 30, 83, 115, 4, 7, 9, 111,
       41, 50, 80, 73, 48, 88, 52, 115, 119, 28, 74, 11, 114, 65, 20, 28, 25,
       54, 88, 14, 69, 11, 57, 72, 85, 6, 61, 34, 9, 49, 105, 12, 67, 103,
       110, 115, 28, 4, 43, 103, 122, 22, 68, 93, 49, 7, 90, 95, 125, 119, 66,
       33, 121, 21, 26, 43, 19, 110, 17, 99, 69, 20, 104, 115, 47, 94, 91,
       122, 120, 124, 61, 20, 99, 93, 50, 3, 5, 24, 114, 68, 54, 29, 73, 27,
       116, 45, 18, 58, 118, 117, 3, 74, 110, 71, 76, 92, 61, 24, 28, 102,
       105, 97, 69, 104, 118, 57, 97, 69, 57, 9, 12, 58, 44, 82, 101, 121, 71,
       114, 53, 43, 10, 96, 29, 109, 40, 123, 20, 87, 38, 42, 111, 111, 24, 2,
       45, 72, 85, 58, 37, 112, 111, 79, 31, 25, 11, 21, 76, 4, 123, 96, 6,
       100, 123, 47, 10, 28, 9, 71, 11, 25, 48, 67, 14, 43, 29, 40, 77, 88,
       14, 31, 46, 42, 16, 72, 31, 120, 59, 19, 89, 39, 96, 34, 13, 40, 90,
       62, 116, 104, 30, 23, 75, 92, 92, 55, 68, 73, 34, 64, 24, 77, 111, 22,
       86, 78, 91, 51, 79, 100, 50, 76, 96, 52, 39, 126, 110, 22, 50, 1, 60,
       15, 75, 88, 102, 11, 76, 94, 103, 11, 0, 38, 110, 79, 23, 2, 111, 55,
       16, 127, 61, 93, 43, 49, 39, 116, 85, 72, 96, 103, 81, 44, 98, 48, 32,
       89, 44, 97, 26, 88, 50, 19, 82, 53, 122, 40, 49, 29, 16, 14, 90, 95,
       52, 18, 88, 45, 117, 2, 49, 90, 52, 80, 66, 9, 123, 121, 90, 127, 103,
       96, 117, 103, 20, 90, 127, 2, 58, 34, 10, 30, 72, 2, 19, 81, 75, 75,
       38, 46, 14, 95, 73, 29, 60, 35, 109, 14, 63, 30, 103, 108, 53, 62, 59,
       94, 0, 111, 24, 85, 59, 46, 63, 123, 9, 10, 29, 52, 88, 113, 18, 87, 9,
       45, 70, 105, 5, 97, 91, 92, 14, 34, 121, 87, 90, 83, 2, 107, 99, 65,
       14, 118, 79, 92, 118, 26, 119, 74, 45, 25, 60, 79, 68, 41, 125, 127,
       112, 43, 16, 101, 28, 106, 88, 47, 107, 75, 1, 29, 39, 48, 1, 56, 122,
       91, 102, 65, 28, 20, 2, 83, 15, 66, 107, 67, 101, 57, 86, 110, 68, 83,
       107, 84, 16, 64, 105, 51, 106, 54, 37, 86, 86, 56, 106, 8, 43, 28, 74,
       6, 83, 6, 68, 45, 15, 48, 65, 58, 26, 25, 18, 29, 23, 57, 13, 37, 64,
       33, 33, 62, 126, 97, 102, 7, 12, 1, 105, 57, 33, 114, 62, 80, 74, 46,
       47, 124, 77, 86, 28, 105, 44, 107, 123, 4, 87, 24, 97, 101, 70, 50, 57,
       115, 88, 9, 1, 120, 127, 79, 55, 52, 5, 106, 10, 68, 64, 58, 40, 23,
       72, 100, 81, 18, 91, 38, 60, 11, 0, 2, 40, 38, 110, 5, 63, 60, 45, 44,
       125, 2, 94, 59, 0, 36, 75, 29, 114, 69, 100, 42, 9, 6, 93, 119, 8, 124,
       29, 30, 86, 84, 127, 74, 124, 31, 85, 68, 109, 33, 51, 35, 89, 58, 58,
       5, 7, 29, 120, 125, 13, 98, 19, 42, 77, 127, 39, 42, 30, 108, 9, 41,
       40, 114, 114, 57, 3, 111, 103, 17, 113, 50, 76, 44, 92, 100, 73, 110,
       31, 17, 97, 52, 32, 22, 102, 8, 100, 16, 52, 9, 111, 38, 30, 55, 64,
       115, 35, 83, 78, 97, 5, 42, 121, 41, 67, 52, 43, 29, 36, 2, 27, 35,
       105, 118, 104, 6, 113, 64, 111, 29, 63, 97, 21, 4, 110, 65, 76, 92,
       100, 59, 15, 18, 88, 113, 21, 2, 24, 118, 36, 104, 88, 113, 52, 110,
       56, 47, 64, 80, 73, 60, 52, 74, 97, 48, 62, 109, 41, 39, 44, 71, 50, 8,
       124, 7, 33, 113, 14, 45, 35, 47, 81, 126, 1, 92, 40, 19, 116, 69, 96,
       61, 57, 77, 93, 34, 40, 35, 66, 120, 38, 76, 82, 70, 20, 88, 11, 96,
       54, 22, 21, 100, 36, 61, 111, 19, 21, 40, 76, 126, 44, 108, 77, 115,
       64, 64, 125, 81, 54, 50, 92, 94, 27, 68, 104, 45, 109, 125, 70, 64, 23,
       5, 16, 104, 95, 12, 5, 35, 123, 57, 119, 27, 20, 57, 59, 56, 0, 67, 51,
       83, 22, 87, 69, 6, 21, 30, 110, 14, 115, 42, 13, 58, 2, 109, 94, 1, 75,
       103, 65, 19, 76, 94, 99, 108, 34, 126, 105, 73, 34, 7, 120, 36, 62, 55,
       81, 86, 10, 123, 93, 112, 73, 8, 110, 16, 14, 83, 35, 26, 98, 74, 20,
       65, 40, 69, 118, 44, 75, 116, 86, 37, 10, 46, 1, 20, 94, 37, 78, 17,
       33, 81, 60, 2, 61, 31, 14, 103, 43, 109, 14, 43, 60, 94, 115, 103, 48,
       83, 47, 79, 85, 96, 36, 40, 109, 42, 46, 32, 91, 29, 17, 65, 27, 69,
       99, 24, 44, 10, 55, 3, 26, 27, 12, 19, 57, 79, 75, 103, 29, 68, 110,
       82, 74, 53, 45, 9, 14, 95, 93, 98, 88, 18, 40, 39, 110, 87, 11, 90, 40,
       20, 0, 49, 46, 49, 82, 69, 1, 104, 89, 18, 81, 48, 1, 118, 69, 22, 84,
       22, 54, 100, 87, 79, 21, 60, 31, 58, 96, 7, 9, 82, 55, 33, 20, 56, 93,
       118, 55, 63, 31, 50, 115, 45, 38, 36, 11, 79, 100, 91, 104, 14, 12, 0,
       91, 50, 98, 21, 75, 76, 110, 20, 91, 64, 77, 60, 87, 124, 119, 40, 112,
       33, 103, 43, 78, 84, 41, 30, 4, 30, 90, 91, 93, 67, 10, 9, 67, 108, 3,
       16, 74, 37, 87, 69, 76, 58, 78, 98, 123, 18, 19, 83, 99, 22, 28, 14,
       59, 89, 8, 99, 115, 13, 1, 4, 25, 25, 86, 73, 64, 4, 5, 121, 17, 2, 42,
       94, 19, 103, 91, 49, 115, 104, 116, 22, 101, 99, 107, 73, 82, 108, 82,
       101, 93, 100, 102, 110, 38, 32, 27, 4, 19, 21, 99, 95, 42, 66, 35, 63,
       69, 60, 54, 3, 43, 118, 27, 72, 109, 74, 93, 63, 121, 113, 110, 60, 65,
       68, 62, 102, 36, 18, 61, 105, 49, 79, 83, 42, 68, 19, 41, 65, 74, 37,
       109, 0, 105, 105, 91, 95, 50, 115, 37, 97, 124, 51, 55, 117, 53, 30,
       121, 32, 3, 59, 0, 86, 107, 12, 110, 7, 89, 119, 3, 1, 77, 95, 11, 60,
       74, 122, 47, 109, 21, 59, 44, 69, 15, 89, 125, 33, 63, 2, 0, 126, 66,
       69, 112, 102, 127, 68, 25, 9, 31, 13, 3, 30, 9, 123, 3, 104, 86, 37,
       123, 57, 2, 123, 74, 64, 60, 40, 7, 67, 34, 21, 51, 72, 32, 9, 71, 66,
       8, 14, 99, 5, 13, 96, 75, 64, 64, 20, 110, 51, 127, 113, 77, 46, 99,
       34, 106, 61, 73, 114, 71, 78, 54, 60, 105, 80, 102, 45, 110, 119, 12,
       34, 21, 27, 74, 62, 92, 102, 63, 98, 65, 84, 109, 0, 115, 102, 120,
       116, 22, 16, 92, 25, 10, 27, 87, 16, 51, 18, 41, 64, 62, 88, 38, 59,
       95, 69, 55, 87, 29, 105, 38, 124, 102, 90, 69, 63, 88, 7, 44, 37, 49,
       24, 122, 122, 111, 93, 31, 16, 42, 43, 115, 53, 2, 80, 59, 124, 57, 42,
       53, 89, 81, 52, 118, 115, 121, 64, 64, 98, 0, 74, 62, 92, 44, 96, 74,
       49, 54, 57, 67, 79, 109, 91, 53, 75, 57, 46, 77, 62, 59, 65, 57, 48,
       58, 41, 37, 8, 61, 8, 56, 19, 81, 11, 18, 47, 90, 124, 19, 51, 113,
       116, 9, 88, 121, 119, 61, 83, 76, 122, 107, 103, 17, 10, 75, 0, 83,
       123, 80, 43, 32, 83, 66, 122, 17, 126, 19, 67, 79, 42, 63, 75, 3, 89,
       102, 11, 54, 102, 12, 0, 2, 49, 28, 107, 38, 113, 68, 110, 89, 110, 34,
       58, 10, 54, 64, 61, 126, 66, 25, 27, 24, 47, 49, 61, 70, 2, 19, 73, 13,
       8, 7, 71, 34, 7, 42, 23, 32, 58, 32, 97, 93, 126, 28, 98, 117, 104, 15,
       55, 44, 66, 98, 69, 94, 124, 37, 108, 100, 1, 99, 88, 61, 92, 105, 114,
       119, 119, 110, 50, 110, 53, 101, 30, 6, 24, 104, 112, 104, 94, 41, 106,
       96, 41, 6, 97, 32, 2, 55, 63, 77, 39, 31, 38, 122, 126, 1, 0, 117, 122,
       75, 85, 23, 127, 69, 51, 10, 115, 113, 70, 12, 73, 64, 80, 109, 33, 39,
       77, 86, 22, 71, 4, 95, 92, 119, 3, 72, 117, 38, 29, 37, 116, 126, 39,
       0, 91, 19, 43, 103, 88, 123, 23, 47, 29, 63, 34, 51, 125, 42, 115, 41,
       49, 65, 122, 0, 119, 52, 18, 84, 79, 78, 27, 46, 44, 54, 38, 59, 28,
       21, 75, 94, 27, 65, 42, 12, 18, 56, 34, 58, 99, 84, 36, 127, 124, 119,
       14, 85, 3, 65, 31, 64, 65, 113, 39, 58, 51, 122, 95, 14, 84, 81, 30,
       23, 112, 97, 46, 37, 73, 123, 46, 19, 96, 121, 74, 90, 63, 53, 22, 113,
       9, 7, 33, 17, 108, 113, 118, 12, 51, 105, 9, 78, 25, 1, 119, 53, 16, 4,
       53, 108, 9, 14, 63, 123, 44, 114, 125, 86, 125, 30, 64, 88, 106, 115,
       86, 13, 59, 52, 98, 84, 4, 26, 21, 74, 105, 55, 66, 102, 87, 43, 77,
       10, 107, 79, 32, 26, 22, 51, 37, 29, 111, 49, 64, 48, 97, 40, 98, 78,
       43, 74, 94, 42, 100, 63, 65, 97, 67, 6, 60, 89, 58, 97, 26, 107, 73,
       118, 109, 103, 32, 117, 53, 20, 47, 10, 37, 84, 118, 84, 93, 103, 11,
       7, 66, 44, 44, 95, 46, 101, 14, 48, 77, 122, 46, 85, 86, 49, 15, 84,
       66, 58, 56, 16, 81, 92, 8, 27, 100, 95, 67, 75, 32, 11, 21, 86, 104,
       100, 1, 34, 75, 47, 39, 33, 43, 66, 123, 6, 17, 9, 23, 81, 1, 56, 46,
       107, 9, 44, 5, 36, 87, 104, 120, 76, 21, 38, 76, 58, 123, 2, 22, 25,
       19, 117, 64, 69, 6, 68, 74, 47, 106, 123, 112, 45, 14, 76, 71, 44, 64,
       16, 57, 32>>)
    @@
    (24 :> <<
       91, 49, 107, 74, 23, 27, 127, 21, 24, 21, 85, 87, 11, 90, 96, 127, 19,
       103, 90, 36, 92, 118, 98, 1, 56, 59, 110, 92, 126, 81, 14, 3, 66, 21,
       122, 62, 94, 108, 56, 87, 38, 63, 121, 127, 10, 87, 97, 32, 107, 78,
       20, 87, 41, 122, 39, 9, 69, 83, 46, 84, 114, 4, 118, 27, 40, 43, 114,
       95, 8, 39, 12, 31, 85, 76, 102, 19, 104, 108, 126, 62, 110, 36, 34, 71,
       95, 35, 118, 25, 11, 73, 63, 100, 19, 83, 18, 41, 61, 25, 85, 77, 124,
       100, 16, 60, 64, 33, 127, 65, 97, 28, 68, 101, 31, 10, 80, 17, 33, 40,
       82, 69, 83, 29, 50, 26, 101, 39, 51, 8, 60, 46, 106, 41, 32, 99, 23,
       95, 73, 105, 55, 43, 111, 113, 31, 115, 47, 4, 7, 111, 57, 89, 40, 56,
       57, 100, 97, 11, 4, 10, 126, 41, 91, 52, 103, 48, 68, 63, 73, 67, 52,
       108, 50, 107, 28, 36, 38, 47, 37, 18, 43, 95, 116, 8, 102, 74, 82, 102,
       2, 116, 33, 118, 69, 1, 88, 82, 53, 51, 80, 50, 115, 37, 34, 57, 48,
       86, 97, 47, 40, 111, 92, 1, 50, 116, 2, 61, 59, 101, 8, 21, 100, 29,
       108, 16, 67, 83, 115, 75, 27, 120, 57, 17, 22, 105, 6, 14, 105, 10, 6,
       30, 119, 3, 71, 123, 89, 62, 6, 23, 116, 42, 101, 39, 13, 110, 23, 14,
       18, 99, 64, 97, 10, 76, 102, 66, 63, 66, 90, 39, 32, 87, 83, 117, 58,
       58, 82, 48, 52, 117, 126, 84, 108, 94, 106, 19, 43, 10, 24, 67, 19, 23,
       16, 56, 123, 43, 36, 122, 111, 108, 29, 82, 79, 17, 31, 12, 39, 125,
       95, 81, 77, 77, 121, 114, 30, 117, 34, 59, 8, 24, 27, 48, 125, 79, 72,
       103, 60, 75, 43, 126, 97, 58, 88, 111, 19, 110, 5, 119, 22, 21, 104,
       24, 93, 105, 28, 1, 29, 35, 39, 60, 86, 79, 95, 74, 30, 114, 42, 33,
       30, 37, 121, 60, 70, 36, 120, 3, 30, 44, 80, 76, 72, 37, 119, 28, 46,
       106, 29, 101, 104, 119, 121, 100, 65, 50, 42, 9, 10, 45, 56, 107, 118,
       57, 45, 122, 57, 60, 72, 52, 30, 4, 13, 20, 66, 3, 123, 98, 111, 99,
       38, 81, 100, 69, 106, 8, 74, 84, 46, 125, 25, 116, 90, 97, 87, 77, 27,
       45, 18, 121, 14, 82, 106, 66, 113, 27, 66, 32, 78, 80, 90, 47, 20, 35,
       66, 108, 57, 36, 111, 112, 20, 36, 108, 74, 18, 48, 78, 2, 114, 108, 9,
       30, 61, 117, 0, 31, 65, 98, 62, 122, 122, 98, 62, 17, 116, 68, 93, 29,
       107, 76, 44, 121, 12, 77, 81, 83, 14, 43, 80, 93, 22, 84, 77, 125, 98,
       29, 123, 74, 25, 43, 22, 76, 53, 29, 124, 96, 32, 123, 60, 125, 48, 71,
       7, 59, 69, 46, 39, 25, 60, 107, 94, 101, 85, 94, 31, 126, 82, 21, 68,
       105, 97, 108, 0, 121, 35, 112, 86, 17, 71, 9, 64, 67, 67, 95, 79, 31,
       94, 117, 106, 57, 99, 80, 116, 40, 73, 24, 21, 0, 47, 77, 110, 123, 98,
       60, 79, 5, 16, 85, 20, 43, 83, 35, 54, 122, 24, 82, 124, 15, 29, 55,
       118, 109, 79, 37, 122, 121, 99, 91, 25, 61, 29, 27, 110, 34, 55, 19,
       64, 72, 95, 100, 77, 29, 92, 101, 66, 14, 35, 14, 92, 1, 16, 45, 92,
       73, 101, 52, 18, 67, 0, 45, 117, 80, 23, 52, 68, 117, 37, 86, 17, 105,
       33, 123, 9, 26, 108, 12, 98, 55, 100, 38, 18, 76, 41, 92, 12, 112, 108,
       29, 124, 51, 121, 30, 107, 20, 78, 101, 63, 113, 14, 95, 4, 12, 79,
       115, 123, 35, 125, 127, 53, 55, 66, 60, 112, 12, 36, 46, 93, 124, 76,
       77, 55, 50, 49, 113, 20, 117, 18, 124, 38, 105, 126, 12, 104, 60, 1,
       104, 96, 109, 18, 2, 73, 100, 117, 98, 115, 82, 113, 111, 127, 56, 80,
       113, 4, 127, 32, 9, 85, 23, 76, 36, 116, 51, 21, 47, 113, 15, 73, 99,
       75, 32, 15, 82, 45, 95, 65, 41, 96, 32, 87, 102, 82, 72, 90, 68, 45,
       84, 42, 123, 125, 18, 85, 125, 71, 30, 123, 16, 110, 18, 92, 29, 125,
       53, 49, 52, 118, 110, 73, 13, 54, 32, 51, 125, 6, 39, 113, 50, 124, 26,
       48, 14, 121, 35, 16, 24, 59, 108, 127, 108, 80, 41, 20, 98, 81, 72, 3,
       27, 92, 21, 75, 40, 82, 10, 86, 21, 12, 71, 112, 70, 97, 123, 114, 75,
       29, 86, 29, 25, 92, 44, 118, 65, 72, 56, 31, 80, 56, 97, 30, 117, 61,
       110, 122, 37, 86, 74, 25, 125, 117, 68, 112, 102, 51, 116, 0, 6, 85,
       127, 41, 17, 16, 24, 116, 103, 51, 107, 21, 26, 36, 14, 127, 38, 44,
       121, 60, 124, 32, 40, 10, 104, 16, 42, 7, 52, 58, 65, 55, 58, 90, 96,
       106, 40, 111, 120, 17, 122, 71, 114, 18, 97, 37, 5, 49, 9, 50, 104,
       107, 49, 54, 13, 20, 30, 76, 3, 33, 35, 115, 22, 13, 87, 19, 127, 8,
       16, 37, 2, 100, 25, 10, 62, 77, 10, 114, 80, 29, 113, 95, 88, 92, 102,
       123, 52, 109, 20, 80, 34, 54, 35, 47, 90, 15, 14, 6, 19, 82, 47, 36,
       125, 20, 59, 61, 85, 18, 103, 81, 14, 121, 124, 47, 33, 4, 42, 21, 34,
       40, 98, 113, 59, 121, 21, 77, 60, 50, 122, 12, 36, 107, 1, 3, 89, 33,
       9, 93, 59, 88, 107, 23, 92, 126, 25, 83, 114, 88, 11, 29, 77, 101, 17,
       3, 20, 77, 98, 2, 57, 100, 11, 75, 89, 72, 73, 47, 84, 100, 75, 4, 24,
       19, 14, 1, 92, 80, 97, 8, 72, 0, 2, 109, 51, 40, 97, 46, 123, 106, 14,
       47, 20, 107, 53, 126, 3, 13, 80, 30, 54, 1, 6, 33, 42, 75, 98, 125,
       109, 101, 41, 92, 68, 18, 11, 118, 22, 55, 24, 99, 108, 24, 26, 124,
       35, 49, 99, 37, 6, 110, 49, 85, 30, 51, 72, 57, 45, 94, 77, 48, 124,
       67, 97, 63, 117, 51, 16, 44, 120, 33, 59, 101, 122, 84, 74, 22, 35, 21,
       20, 50, 83, 76, 15, 64, 78, 82, 79, 89, 123, 37, 42, 8, 121, 84, 97,
       69, 56, 42, 82, 113, 127, 18, 58, 14, 93, 80, 75, 49, 11, 83, 41, 11,
       112, 62, 101, 78, 79, 55, 56, 18, 46, 10, 53, 39, 70, 37, 114, 112, 47,
       8, 37, 95, 75, 122, 101, 66, 66, 21, 4, 78, 107, 118, 54, 52, 5, 93, 8,
       26, 119, 33, 40, 45, 72, 77, 93, 120, 26, 20, 114, 5, 101, 32, 13, 82,
       98, 87, 40, 68, 38, 92, 111, 61, 80, 20, 4, 122, 76, 43, 104, 0, 87,
       21, 65, 33, 69, 91, 121, 38, 87, 22, 60, 88, 51, 84, 119, 84, 89, 34,
       110, 116, 10, 82, 109, 60, 110, 117, 25, 30, 122, 38, 41, 73, 70, 74,
       32, 71, 96, 12, 55, 96, 24, 125, 88, 46, 105, 106, 51, 16, 11, 14, 29,
       75, 15, 119, 50, 72, 33, 29, 30, 19, 110, 117, 0, 90, 28, 126, 117, 33,
       125, 97, 67, 21, 1, 16, 106, 50, 53, 44, 76, 97, 80, 54, 15, 40, 57,
       113, 88, 110, 71, 57, 34, 99, 113, 10, 78, 39, 8, 112, 118, 63, 87, 14,
       34, 28, 37, 113, 124, 49, 82, 127, 36, 125, 64, 74, 91, 109, 101, 45,
       38, 101, 75, 7, 38, 62, 106, 2, 16, 34, 18, 119, 54, 80, 5, 6, 84, 107,
       23, 111, 127, 122, 37, 56, 18, 18, 120, 98, 50, 75, 3, 6, 56, 63, 76,
       78, 94, 98, 100, 79, 60, 40, 17, 11, 55, 6, 118, 14, 46, 52, 97, 49,
       50, 117, 19, 64, 63, 105, 16, 86, 95, 89, 2, 107, 14, 109, 13, 88, 94,
       63, 43, 108, 111, 32, 88, 33, 96, 15, 108, 24, 127, 14, 37, 23, 2, 40,
       54, 90, 83, 126, 40, 82, 117, 90, 86, 68, 6, 18, 63, 93, 107, 74, 90,
       58, 115, 107, 39, 121, 76, 21, 3, 2, 115, 47, 81, 73, 85, 64, 33, 37,
       80, 32, 77, 56, 36, 11, 108, 62, 71, 114, 38, 112, 100, 99, 62, 23, 53,
       50, 52, 15, 62, 25, 67, 4, 101, 8, 40, 92, 75, 34, 64, 86, 50, 62, 86,
       32, 68, 84, 46, 62, 28, 24, 77, 34, 33, 64, 54, 30, 92, 61, 55, 47, 26,
       120, 11, 19, 55, 100, 62, 21, 100, 5, 88, 106, 71, 97, 127, 51, 34,
       114, 84, 37, 44, 48, 65, 109, 117, 102, 2, 121, 36, 43, 70, 93, 71,
       117, 14, 91, 1, 43, 110, 119, 6, 103, 5, 5, 94, 62, 33, 124, 44, 102,
       79, 89, 57, 9, 30, 108, 59, 33, 29, 27, 9, 94, 99, 60, 92, 127, 57,
       107, 109, 10, 29, 5, 59, 22, 97, 9, 61, 35, 58, 47, 10, 2, 23, 92, 38,
       103, 88, 48, 27, 63, 46, 75, 69, 126, 13, 97, 24, 24, 2, 70, 91, 38,
       31, 115, 28, 111, 76, 59, 20, 121, 62, 100, 2, 105, 67, 45, 51, 105,
       65, 20, 118, 106, 84, 48, 111, 116, 51, 59, 10, 35, 59, 34, 72, 44, 18,
       112, 63, 59, 35, 42, 41, 123, 58, 100, 73, 6, 33, 64, 98, 120, 37, 50,
       75, 0, 64, 72, 66, 94, 33, 96, 15, 82, 52, 52, 92, 55, 10, 14, 105,
       119, 34, 126, 37, 15, 10, 17, 55, 3, 67, 46, 80, 96, 108, 47, 28, 32,
       21, 58, 125, 79, 122, 72, 103, 64, 18, 53, 78, 57, 61, 82, 103, 39, 22,
       126, 28, 84, 119, 107, 86, 83, 116, 127, 35, 1, 88, 37, 53, 70, 35,
       119, 127, 56, 2, 25, 73, 77, 95, 126, 88, 1, 100, 10, 67, 79, 117, 21,
       44, 118, 42, 3, 121, 91, 107, 38, 98, 76, 121, 85, 40, 64, 102, 44, 41,
       122, 123, 56, 87, 26, 114, 1, 32, 79, 72, 27, 109, 69, 63, 31, 112, 14,
       53, 61, 17, 82, 100, 52, 32, 123, 117, 112, 45, 84, 81, 88, 32, 113,
       113, 55, 24, 119, 6, 31, 48, 120, 127, 111, 89, 13, 102, 0, 111, 77,
       22, 48, 80, 56, 42, 6, 6, 56, 104, 78, 21, 97, 57, 74, 28, 89, 24, 55,
       3, 120, 106, 29, 41, 63, 23, 46, 58, 109, 97, 48, 51, 14, 45, 93, 15,
       85, 119, 37, 71, 118, 101, 0, 31, 33, 24, 113, 50, 108, 33, 69, 93, 37,
       37, 6, 68, 93, 7, 15, 33, 123, 85, 22, 60, 29, 113, 6, 29, 48, 92, 59,
       124, 100, 69, 21, 56, 11, 52, 39, 10, 119, 95, 37, 65, 47, 111, 122,
       38, 106, 65, 55, 46, 95, 16, 50, 29, 77, 106, 91, 87, 35, 65, 7, 46,
       91, 93, 90, 20, 111, 110, 10, 32, 65, 61, 65, 75, 30, 50, 54, 10, 76,
       124, 117, 3, 13, 23, 21, 10, 123, 73, 65, 7, 56, 56, 106, 101, 122,
       125, 45, 11, 125, 44, 73, 57, 55, 29, 89, 71, 68, 53, 88, 121, 11, 112,
       103, 109, 29, 57, 37, 107, 78, 90, 77, 111, 71, 97, 24, 15, 38, 88, 80,
       124, 55, 84, 11, 45, 36, 124, 64, 75, 73, 66, 125, 10, 75, 10, 112, 20,
       112, 113, 17, 62, 3, 62, 113, 48, 53, 108, 82, 118, 126, 90, 1, 103,
       56, 3, 94, 116, 47, 86, 92, 126, 34, 51, 109, 16, 82, 123, 12, 35, 77,
       29, 39, 107, 24, 107, 118, 103, 18, 106, 71, 18, 47, 80, 71, 80, 58,
       105, 51, 17, 88, 49, 23, 29, 73, 37, 75, 5, 39, 102, 10, 66, 95, 15,
       76, 1, 116, 121, 110, 60, 20, 104, 124, 127, 44, 65, 63, 17, 39, 46,
       75, 111, 90, 104, 35, 34, 32, 102, 77, 77, 64, 98, 73, 36, 14, 53, 119,
       127, 114, 16, 16, 95, 37, 53, 5, 51, 8, 34, 2, 26, 24, 18, 76, 74, 119,
       20, 65, 115, 18, 126, 108, 98, 17, 52, 80, 109, 53, 106, 57, 10, 16,
       52, 15, 16, 83, 32, 86, 115, 58, 126, 44, 22, 95, 19, 56, 22, 110, 102,
       80, 80, 6, 126, 17, 105, 42, 118, 1, 10, 86, 56, 111, 26, 106, 84, 70,
       70, 73, 127, 115, 64, 44, 117, 118, 122, 11, 93, 5, 51, 94, 56, 104,
       112, 20, 90, 44, 73, 108, 51, 120, 67, 117, 97, 67, 98, 76, 98, 118,
       106, 121, 48, 24, 42, 112, 117, 119, 118, 74, 105, 31, 99, 54, 103, 95,
       95, 101, 35, 56, 37, 7, 95, 15, 60, 28, 64, 39, 67, 45, 92, 54, 107,
       52, 121, 40, 88, 62, 108, 1, 48, 42, 28, 98, 69, 106, 111, 7, 13, 67,
       41, 83, 48, 11, 88, 53, 66, 75, 7, 29, 84, 32, 67, 3, 59, 62, 86, 68,
       10, 29, 104, 72, 89, 53, 6, 10, 33, 77, 110, 112, 125, 83, 31, 118, 5,
       82, 58, 17, 93, 118, 59, 31, 97, 29, 43, 25, 0, 72, 20, 52, 55, 33, 34,
       14, 80, 17, 22, 44, 127, 23, 27, 4, 1, 54, 11, 72, 64, 75, 102, 114,
       105, 22, 126, 87, 2, 57, 57, 44, 109, 14, 48, 9, 123, 7, 64, 26, 101,
       110, 72, 80, 95, 19, 8, 83, 120, 93, 10, 73, 89, 40, 89, 114, 29, 72,
       8, 48, 102, 122, 125, 100, 104, 94, 75, 64, 77, 126, 106, 48, 91, 35,
       35, 8, 48, 102, 5, 106, 71, 49, 10, 119, 8, 55, 77, 1, 117, 114, 123,
       10, 13, 122, 106, 70, 76, 71, 119, 61, 22, 66, 116, 127, 73, 95, 112,
       87, 44, 33, 102, 33, 33, 114, 50, 56, 112, 11, 108, 56, 28, 121, 110,
       3, 2, 116, 2, 33, 125, 58, 104, 74, 68, 65, 0, 67, 67, 70, 110, 25, 93,
       18, 122, 124, 62, 11, 63, 112, 116, 30, 77, 37, 113, 88, 103, 72, 92,
       113, 116, 42, 60, 84, 3, 6, 9, 63, 70, 52, 94, 84, 82, 107, 92, 101,
       90, 5, 57, 40, 47, 91, 54, 36, 44, 31, 6, 114, 46, 109, 12, 68, 41, 65,
       13, 105, 62, 62, 94, 65, 120, 45, 78, 25, 25, 108, 117, 75, 99, 90,
       103, 91, 126, 22, 104, 70, 82, 1, 107, 28, 26, 76, 48, 111, 32, 102,
       99, 104, 81, 10, 15, 60, 89, 73, 0, 49, 13, 116, 42, 46, 101, 106, 62,
       96, 79, 75, 115, 61, 107, 63, 70, 122, 125, 39, 19, 7, 121, 41, 36, 45,
       54, 45, 34, 32, 6, 77, 108, 24, 126, 85, 69, 29, 29, 17, 39, 104, 70,
       116, 14, 109, 17, 90, 58, 61, 14, 69, 97, 107, 68, 24, 63, 39, 90, 127,
       13, 41, 6, 54, 73, 26, 41, 57, 27, 61, 51, 57, 59, 42, 41, 110, 69,
       123, 6, 87, 84, 21, 53, 123, 2, 93, 39, 89, 35, 51, 9, 32, 22, 119, 25,
       43, 112, 47, 118, 19, 108, 116, 11, 105, 116, 9, 23, 28, 2, 43, 92, 20,
       58, 20, 97, 6, 49, 60, 57, 81, 63, 65, 41, 45, 72, 58, 115, 73, 25, 68,
       104, 94, 84, 75, 103, 100, 19, 50, 8, 65, 90, 72, 116, 124, 110, 127,
       39, 13, 47, 63, 4, 52, 36, 101, 98, 110, 53, 84, 103, 16, 77, 123, 38,
       57, 72, 15, 14, 48, 70, 96, 124, 121, 123, 76, 117, 101, 36, 1, 124,
       39, 77, 94, 7, 20, 6, 7, 97, 58, 67, 5, 103, 4, 97, 9, 66, 70, 54, 82,
       89, 98, 118, 37, 26, 78, 103, 125, 51, 124, 25, 79, 121, 83, 56, 33,
       123, 26, 99, 102, 71, 58, 63, 114, 54, 116, 6, 121, 25, 32, 53, 94, 72,
       113, 88, 125, 8, 78, 55, 29, 56, 47, 3, 54, 55, 74, 26, 93, 120, 49,
       107, 21, 80, 59, 31, 105, 107, 121, 29, 50, 88, 36, 58, 89, 93, 109,
       31, 40, 63, 37, 107, 126, 22, 13, 88, 89, 113, 75, 66, 98, 36, 73, 4,
       91, 120, 12, 95, 1, 14, 90, 80, 71, 20, 1, 22, 78, 35, 2, 52, 107, 34,
       97, 83, 67, 67, 46, 107, 99, 82, 8, 2, 50, 111, 108, 76, 122, 12, 81,
       8, 3, 41, 55, 37, 12, 73, 55, 39, 99, 109, 69, 72, 17, 29, 63, 59, 56,
       41, 35, 9, 58, 42, 66, 91, 84, 126, 57, 51, 19, 98, 111, 32, 36, 52,
       122, 70, 6, 84, 109, 53, 124, 16, 13, 19, 51, 87, 49, 65, 47, 45, 52,
       101, 60, 55, 43, 45, 90, 12, 69, 96, 48, 119, 101, 43, 28, 74, 91, 26,
       21, 120, 69, 126, 101, 64, 44, 81, 127, 86, 3, 108, 127, 110, 114, 19,
       27, 116, 106, 63, 88, 10, 54, 40, 115, 8, 112, 66, 35, 70, 101, 69,
       103, 112, 88, 78, 111, 111, 40, 80, 3, 95, 68, 66, 58, 115, 51, 48, 63,
       110, 116, 16, 107, 119, 75, 31, 80, 52, 53, 41, 112, 80, 45, 112, 20,
       21, 75, 1, 2, 0, 62, 69, 30, 92, 92, 121, 73, 105, 45, 75, 29, 74, 47,
       29, 15, 119, 75, 46, 87, 113, 85, 17, 69, 111, 91, 113, 126, 1, 25, 20,
       45, 73, 82, 124, 42, 87, 11, 5, 112, 94, 106, 49, 52, 74>>)
    @@
    (25 :> <<
       48, 98, 118, 107, 107, 1, 27, 119, 111, 39, 81, 60, 5, 109, 121, 96,
       32, 4, 39, 72, 54, 12, 75, 109, 15, 73, 87, 93, 106, 25, 65, 123, 101,
       120, 79, 40, 105, 117, 23, 70, 45, 65, 60, 67, 13, 113, 124, 106, 81,
       86, 12, 76, 74, 45, 53, 45, 24, 86, 20, 79, 58, 9, 9, 51, 72, 8, 65,
       81, 16, 93, 112, 123, 5, 69, 22, 9, 104, 74, 28, 98, 54, 110, 71, 57,
       55, 102, 63, 78, 64, 83, 61, 56, 7, 104, 104, 63, 36, 21, 6, 126, 52,
       106, 104, 48, 80, 123, 58, 2, 61, 120, 28, 54, 79, 73, 44, 121, 8, 107,
       16, 15, 11, 29, 87, 23, 112, 81, 96, 17, 28, 118, 18, 113, 121, 97, 47,
       26, 21, 80, 73, 114, 79, 101, 69, 66, 57, 47, 38, 46, 63, 63, 58, 59,
       87, 54, 57, 48, 45, 64, 126, 118, 14, 111, 96, 33, 53, 40, 103, 3, 90,
       124, 72, 103, 78, 116, 29, 73, 2, 22, 95, 79, 33, 65, 14, 94, 103, 33,
       75, 100, 4, 7, 66, 103, 20, 91, 110, 4, 34, 115, 120, 22, 78, 40, 10,
       12, 52, 85, 123, 76, 89, 83, 19, 69, 47, 16, 35, 123, 11, 124, 75, 11,
       88, 72, 27, 123, 70, 90, 110, 81, 114, 106, 21, 9, 9, 78, 116, 2, 41,
       91, 21, 64, 102, 29, 33, 9, 91, 11, 88, 15, 37, 3, 59, 76, 37, 101,
       103, 46, 36, 32, 35, 7, 109, 20, 35, 109, 55, 5, 66, 39, 0, 117, 36, 8,
       95, 77, 125, 18, 43, 125, 61, 121, 7, 30, 62, 57, 46, 104, 64, 6, 38,
       57, 40, 39, 116, 121, 99, 19, 46, 53, 8, 30, 6, 83, 12, 121, 16, 106,
       74, 50, 66, 1, 16, 122, 112, 17, 85, 10, 90, 109, 114, 80, 40, 37, 115,
       69, 124, 109, 116, 101, 5, 9, 108, 47, 125, 126, 13, 14, 110, 71, 104,
       76, 4, 14, 90, 86, 97, 121, 95, 63, 7, 102, 124, 103, 9, 102, 10, 25,
       121, 8, 61, 121, 22, 96, 50, 99, 79, 114, 34, 95, 117, 93, 86, 20, 49,
       89, 46, 71, 14, 7, 126, 10, 39, 93, 119, 64, 69, 104, 68, 25, 22, 9,
       64, 48, 12, 93, 57, 8, 78, 82, 118, 97, 28, 48, 23, 101, 100, 123, 16,
       64, 24, 36, 61, 113, 54, 88, 127, 25, 8, 125, 111, 114, 59, 50, 17, 39,
       30, 44, 116, 127, 22, 20, 54, 96, 4, 41, 62, 101, 89, 29, 94, 26, 43,
       34, 54, 77, 105, 106, 112, 110, 57, 46, 7, 110, 120, 26, 44, 80, 60,
       93, 6, 65, 2, 87, 14, 14, 69, 50, 33, 102, 101, 79, 18, 114, 83, 101,
       2, 120, 45, 53, 120, 54, 32, 127, 40, 111, 4, 8, 111, 55, 63, 59, 31,
       5, 71, 99, 34, 49, 113, 1, 54, 1, 8, 42, 27, 9, 6, 120, 97, 0, 13, 4,
       62, 4, 75, 15, 12, 111, 82, 114, 80, 65, 119, 102, 119, 34, 125, 13,
       67, 51, 62, 72, 55, 66, 16, 96, 76, 73, 127, 20, 64, 79, 109, 4, 33, 2,
       48, 121, 54, 6, 124, 64, 47, 92, 97, 91, 18, 115, 97, 14, 60, 43, 126,
       33, 2, 4, 33, 72, 113, 69, 56, 68, 35, 44, 111, 107, 54, 124, 112, 75,
       69, 113, 7, 65, 12, 73, 111, 126, 116, 13, 21, 28, 127, 76, 107, 100,
       68, 40, 98, 90, 67, 90, 4, 16, 37, 18, 43, 74, 114, 67, 35, 35, 89, 55,
       81, 63, 15, 84, 58, 68, 70, 79, 92, 26, 45, 118, 126, 88, 103, 99, 3,
       17, 112, 53, 78, 102, 120, 3, 29, 44, 98, 36, 91, 15, 51, 103, 45, 119,
       76, 40, 125, 2, 87, 13, 82, 125, 87, 90, 107, 101, 75, 105, 91, 8, 4,
       79, 110, 55, 123, 62, 73, 103, 73, 25, 119, 113, 72, 18, 114, 3, 70,
       21, 72, 101, 117, 109, 118, 3, 76, 107, 69, 80, 70, 104, 59, 106, 47,
       37, 29, 127, 36, 5, 28, 3, 120, 56, 52, 68, 112, 55, 60, 66, 127, 74,
       75, 11, 43, 62, 54, 73, 34, 56, 42, 94, 36, 124, 35, 28, 49, 85, 3,
       123, 121, 98, 103, 114, 43, 21, 107, 33, 6, 122, 78, 126, 75, 50, 112,
       26, 125, 43, 77, 101, 106, 1, 89, 9, 11, 112, 13, 106, 14, 99, 96, 79,
       60, 85, 45, 11, 63, 100, 120, 10, 61, 30, 106, 79, 46, 100, 83, 34, 99,
       115, 23, 107, 116, 43, 25, 17, 20, 20, 124, 69, 29, 84, 54, 40, 120,
       28, 26, 97, 84, 73, 91, 98, 9, 32, 14, 40, 125, 48, 105, 55, 85, 61,
       80, 122, 62, 72, 116, 73, 3, 81, 36, 107, 36, 57, 82, 28, 120, 124, 31,
       2, 14, 89, 31, 6, 109, 50, 79, 11, 18, 114, 90, 13, 52, 53, 7, 84, 40,
       67, 109, 65, 121, 90, 49, 18, 99, 79, 119, 31, 13, 114, 24, 29, 42,
       122, 42, 16, 81, 9, 126, 124, 25, 82, 35, 8, 65, 61, 93, 105, 19, 14,
       72, 126, 79, 127, 98, 27, 45, 75, 40, 71, 73, 9, 48, 17, 57, 58, 99,
       51, 124, 123, 126, 105, 22, 115, 69, 82, 69, 18, 70, 101, 25, 42, 41,
       8, 50, 11, 24, 23, 62, 44, 116, 28, 84, 31, 20, 67, 32, 67, 46, 62,
       105, 77, 4, 25, 11, 2, 107, 84, 46, 77, 23, 92, 69, 92, 5, 15, 91, 18,
       113, 14, 7, 5, 67, 30, 119, 120, 39, 84, 37, 20, 112, 100, 0, 37, 5,
       125, 76, 30, 105, 113, 73, 102, 87, 35, 52, 117, 122, 18, 40, 47, 71,
       116, 22, 88, 38, 55, 78, 75, 9, 102, 96, 39, 30, 97, 100, 119, 17, 47,
       80, 44, 63, 78, 31, 69, 100, 90, 88, 17, 51, 84, 70, 49, 54, 33, 98,
       48, 4, 12, 6, 26, 73, 77, 8, 82, 112, 40, 113, 42, 29, 93, 23, 111,
       111, 70, 8, 101, 65, 68, 14, 3, 126, 31, 53, 60, 86, 56, 36, 43, 111,
       47, 93, 10, 0, 112, 10, 66, 38, 124, 41, 23, 3, 85, 79, 38, 3, 64, 69,
       91, 96, 114, 35, 35, 38, 114, 109, 24, 98, 72, 98, 34, 12, 121, 32, 14,
       47, 29, 62, 86, 96, 78, 115, 111, 74, 44, 8, 124, 4, 42, 51, 125, 120,
       56, 9, 96, 124, 48, 1, 20, 3, 51, 60, 40, 9, 93, 43, 86, 125, 77, 124,
       24, 101, 22, 87, 126, 45, 82, 51, 23, 67, 98, 43, 42, 80, 11, 26, 29,
       66, 40, 51, 84, 16, 2, 21, 88, 57, 27, 46, 64, 49, 40, 118, 0, 36, 19,
       48, 49, 47, 104, 121, 2, 126, 10, 95, 67, 0, 88, 67, 103, 122, 85, 31,
       8, 97, 76, 86, 77, 69, 61, 120, 41, 34, 89, 123, 94, 38, 64, 109, 92,
       88, 46, 72, 102, 56, 107, 20, 102, 44, 68, 112, 68, 69, 55, 17, 90, 75,
       68, 66, 103, 113, 16, 114, 54, 112, 81, 19, 76, 65, 105, 63, 70, 55,
       41, 111, 75, 121, 62, 16, 33, 102, 23, 52, 1, 51, 106, 3, 91, 65, 34,
       78, 52, 90, 120, 17, 17, 36, 82, 68, 62, 34, 90, 112, 110, 56, 22, 4,
       9, 69, 126, 21, 56, 93, 0, 52, 75, 117, 24, 20, 108, 89, 16, 87, 19,
       46, 43, 107, 13, 106, 107, 122, 37, 76, 28, 26, 34, 106, 56, 23, 35,
       91, 118, 38, 101, 49, 33, 41, 100, 79, 101, 110, 68, 106, 98, 1, 71,
       109, 21, 89, 8, 48, 108, 112, 35, 35, 98, 108, 117, 121, 55, 90, 105,
       43, 60, 47, 51, 37, 48, 54, 38, 19, 26, 110, 59, 44, 28, 28, 86, 26,
       46, 76, 29, 7, 69, 101, 23, 109, 67, 39, 7, 22, 109, 123, 61, 52, 41,
       125, 3, 87, 59, 83, 68, 72, 55, 9, 35, 18, 124, 95, 117, 45, 18, 39,
       27, 120, 107, 31, 12, 64, 96, 58, 107, 108, 91, 24, 29, 42, 59, 43, 94,
       19, 24, 60, 80, 96, 42, 95, 82, 41, 91, 84, 55, 61, 95, 47, 16, 95, 73,
       77, 82, 15, 64, 46, 77, 83, 88, 36, 7, 77, 32, 24, 90, 34, 109, 26,
       120, 104, 17, 59, 49, 14, 9, 76, 27, 25, 31, 3, 100, 121, 19, 10, 31,
       121, 65, 50, 124, 15, 45, 109, 91, 83, 68, 79, 96, 18, 64, 121, 8, 107,
       58, 68, 29, 52, 104, 126, 5, 119, 12, 42, 43, 54, 56, 70, 74, 85, 34,
       127, 108, 99, 82, 28, 15, 13, 21, 5, 109, 14, 49, 12, 13, 47, 86, 68,
       23, 66, 123, 74, 74, 96, 42, 0, 27, 90, 114, 18, 101, 95, 4, 110, 118,
       12, 75, 79, 43, 19, 41, 69, 76, 24, 59, 92, 26, 45, 23, 122, 67, 70,
       37, 107, 76, 38, 53, 108, 21, 13, 100, 97, 56, 109, 99, 10, 11, 69, 64,
       22, 126, 26, 46, 108, 57, 14, 64, 101, 101, 61, 89, 18, 64, 35, 8, 76,
       4, 24, 119, 86, 5, 123, 47, 126, 114, 13, 100, 5, 64, 47, 116, 104, 62,
       117, 17, 60, 112, 45, 32, 37, 9, 101, 96, 83, 59, 48, 2, 73, 104, 62,
       57, 103, 125, 110, 44, 123, 20, 100, 12, 74, 34, 102, 61, 28, 3, 104,
       80, 18, 79, 110, 52, 95, 126, 21, 63, 103, 110, 51, 117, 67, 7, 19, 25,
       55, 118, 60, 49, 64, 18, 54, 76, 1, 95, 94, 82, 118, 61, 50, 34, 85,
       95, 97, 89, 23, 46, 76, 20, 79, 7, 108, 103, 92, 96, 69, 27, 28, 86, 4,
       18, 12, 126, 109, 47, 117, 73, 30, 26, 94, 107, 27, 104, 60, 119, 19,
       50, 56, 37, 15, 120, 100, 97, 62, 54, 31, 53, 114, 13, 28, 37, 36, 82,
       72, 11, 24, 48, 122, 50, 47, 32, 16, 23, 26, 8, 36, 5, 124, 58, 18, 18,
       40, 17, 6, 3, 120, 126, 89, 18, 2, 82, 100, 12, 37, 92, 60, 50, 10, 97,
       6, 85, 99, 18, 88, 86, 80, 42, 84, 127, 88, 94, 19, 122, 59, 7, 61, 49,
       52, 96, 97, 85, 41, 33, 79, 105, 0, 99, 8, 105, 66, 101, 99, 85, 108,
       106, 124, 115, 47, 83, 104, 20, 110, 50, 97, 65, 49, 80, 66, 12, 86,
       51, 29, 90, 31, 71, 3, 48, 112, 10, 42, 114, 14, 120, 61, 34, 44, 85,
       8, 10, 93, 13, 73, 99, 77, 21, 121, 105, 90, 89, 31, 76, 100, 19, 126,
       96, 83, 60, 58, 61, 52, 13, 10, 4, 100, 12, 93, 83, 22, 55, 30, 61, 54,
       1, 96, 62, 26, 71, 104, 90, 116, 48, 21, 56, 27, 125, 11, 117, 59, 92,
       93, 59, 15, 83, 44, 126, 46, 56, 50, 67, 53, 53, 4, 68, 105, 6, 103,
       75, 8, 107, 11, 76, 18, 24, 102, 123, 4, 47, 97, 76, 42, 69, 112, 105,
       43, 106, 100, 125, 5, 102, 47, 92, 25, 38, 64, 49, 117, 48, 101, 74,
       48, 68, 27, 76, 11, 0, 81, 45, 104, 0, 54, 11, 116, 109, 17, 63, 21,
       116, 12, 8, 64, 49, 13, 82, 92, 65, 100, 120, 36, 66, 120, 85, 0, 13,
       90, 78, 70, 96, 60, 82, 44, 71, 113, 3, 6, 89, 96, 60, 64, 89, 72, 9,
       14, 115, 94, 49, 55, 32, 26, 109, 58, 55, 90, 39, 81, 84, 127, 119, 82,
       109, 127, 123, 4, 45, 82, 105, 111, 76, 45, 76, 22, 62, 5, 12, 41, 46,
       96, 27, 21, 111, 41, 72, 56, 37, 6, 5, 19, 84, 39, 15, 99, 28, 99, 37,
       44, 38, 40, 121, 31, 61, 61, 47, 85, 34, 108, 125, 122, 38, 46, 106,
       47, 118, 29, 81, 61, 35, 9, 37, 42, 40, 8, 82, 42, 113, 109, 31, 51,
       74, 127, 101, 108, 48, 81, 1, 115, 105, 71, 29, 113, 8, 33, 26, 35,
       124, 112, 91, 84, 100, 73, 79, 33, 50, 68, 74, 36, 71, 6, 80, 91, 30,
       89, 122, 61, 105, 120, 116, 9, 19, 89, 39, 13, 83, 93, 34, 116, 68, 2,
       107, 116, 109, 88, 78, 62, 57, 73, 66, 4, 76, 2, 95, 77, 45, 19, 114,
       19, 37, 47, 11, 67, 73, 96, 12, 85, 4, 71, 31, 1, 110, 113, 49, 1, 20,
       126, 106, 60, 0, 92, 27, 76, 101, 45, 83, 83, 61, 94, 118, 32, 59, 104,
       99, 52, 0, 34, 67, 39, 18, 87, 81, 30, 78, 43, 74, 1, 116, 2, 30, 120,
       52, 53, 7, 112, 97, 93, 119, 110, 92, 27, 13, 64, 18, 113, 70, 48, 16,
       34, 39, 113, 85, 67, 115, 92, 80, 30, 21, 99, 19, 53, 63, 110, 88, 62,
       112, 53, 124, 19, 36, 106, 120, 38, 56, 84, 103, 71, 89, 59, 18, 59,
       78, 32, 71, 9, 83, 35, 111, 30, 43, 29, 50, 118, 108, 119, 32, 56, 106,
       126, 112, 0, 42, 9, 12, 62, 27, 30, 2, 82, 127, 57, 20, 26, 108, 8,
       124, 121, 37, 37, 98, 96, 61, 66, 19, 3, 39, 106, 62, 27, 126, 34, 36,
       7, 54, 55, 70, 114, 11, 8, 73, 22, 84, 51, 42, 84, 38, 38, 46, 65, 15,
       34, 36, 124, 28, 44, 118, 116, 31, 32, 114, 123, 31, 80, 107, 126, 40,
       9, 123, 7, 74, 127, 102, 9, 64, 34, 4, 122, 23, 15, 87, 85, 79, 28, 9,
       51, 46, 21, 94, 98, 42, 22, 47, 54, 38, 14, 38, 97, 52, 112, 67, 61,
       51, 102, 23, 94, 56, 84, 59, 113, 93, 127, 52, 47, 26, 58, 17, 116, 89,
       62, 43, 21, 47, 99, 59, 1, 89, 123, 82, 95, 25, 122, 44, 98, 92, 47,
       68, 109, 6, 66, 9, 15, 70, 26, 7, 50, 10, 78, 4, 46, 36, 91, 60, 8, 8,
       49, 69, 106, 11, 109, 79, 118, 109, 73, 53, 119, 122, 85, 76, 87, 8,
       24, 87, 51, 73, 98, 85, 102, 117, 72, 49, 29, 126, 82, 48, 44, 112, 34,
       113, 69, 48, 99, 55, 35, 67, 3, 28, 120, 39, 127, 31, 72, 33, 53, 84,
       18, 72, 97, 50, 7, 25, 37, 83, 60, 90, 30, 102, 25, 58, 33, 1, 116, 9,
       40, 78, 20, 42, 53, 4, 8, 41, 71, 68, 82, 73, 92, 53, 18, 84, 127, 48,
       105, 59, 107, 65, 70, 88, 114, 98, 112, 82, 60, 114, 85, 41, 29, 114,
       65, 24, 28, 73, 83, 70, 34, 8, 39, 81, 91, 64, 40, 39, 115, 124, 106,
       54, 125, 103, 34, 100, 52, 109, 103, 80, 125, 82, 85, 74, 27, 119, 7,
       75, 36, 27, 56, 2, 105, 75, 1, 31, 81, 6, 102, 66, 28, 69, 43, 94, 112,
       53, 36, 80, 95, 9, 85, 62, 22, 114, 51, 125, 86, 105, 98, 33, 75, 75,
       114, 3, 28, 76, 31, 0, 115, 4, 108, 97, 80, 45, 2, 46, 98, 120, 52, 69,
       33, 40, 126, 110, 97, 95, 72, 68, 80, 34, 50, 37, 113, 112, 103, 66,
       16, 27, 34, 117, 34, 48, 111, 113, 78, 125, 70, 43, 125, 8, 86, 23, 48,
       23, 21, 5, 6, 97, 40, 48, 60, 13, 60, 25, 127, 105, 30, 24, 63, 82,
       122, 101, 101, 91, 80, 2, 69, 27, 75, 110, 78, 0, 119, 11, 115, 44,
       120, 73, 118, 92, 68, 9, 67, 16, 115, 61, 112, 100, 17, 8, 124, 88, 50,
       80, 45, 119, 76, 110, 37, 41, 8, 125, 3, 96, 51, 34, 52, 22, 93, 4, 35,
       99, 70, 65, 79, 59, 57, 55, 66, 80, 120, 126, 71, 96, 110, 29, 114, 77,
       87, 96, 122, 43, 67, 116, 85, 110, 30, 38, 98, 19, 28, 101, 31, 92, 53,
       112, 94, 44, 97, 83, 44, 46, 110, 26, 36, 72, 58, 83, 37, 50, 45, 43,
       57, 1, 120, 18, 100, 80, 5, 58, 114, 52, 116, 69, 127, 40, 52, 87, 123,
       5, 35, 85, 100, 111, 60, 77, 8, 76, 21, 77, 58, 17, 114, 0, 14, 42, 59,
       6, 21, 91, 84, 101, 117, 33, 2, 13, 59, 118, 112, 36, 21, 122, 97, 7,
       84, 110, 120, 67, 37, 119, 41, 10, 49, 118, 40, 35, 32, 65, 34, 100,
       29, 117, 17, 16, 79, 10, 8, 25, 18, 88, 15, 120, 45, 109, 4, 89, 123,
       19, 89, 64, 47, 124, 26, 94, 71, 104, 15, 26, 10, 23, 107, 50, 124, 95,
       20, 69, 45, 59, 0, 46, 25, 97, 37, 110, 8, 112, 124, 104, 23, 63, 28,
       82, 6, 112, 2, 54, 44, 66, 4, 13, 49, 39, 92, 82, 15, 30, 47, 56, 78,
       15, 0, 94, 75, 0, 56, 107, 92, 82, 49, 18, 61, 86, 47, 61, 27, 78, 97,
       10, 93, 102, 19, 114, 53, 31, 46, 10, 80, 108, 50, 54, 87, 66, 76, 113,
       104, 97, 38, 49, 22, 82, 106, 88, 31, 96, 122, 14, 103, 44, 22, 127, 8,
       20, 22, 50, 96, 109, 33, 75, 3, 60, 79, 27, 1, 37, 111, 3, 123, 0, 3,
       19, 92, 1, 63, 11, 95, 105, 88, 34, 52, 50, 34, 8, 127, 101, 50, 85,
       50, 20, 28, 78, 94, 17, 40, 20, 62, 117, 99, 19, 110, 79, 122, 104, 96,
       105, 89, 119, 4, 88, 49, 40, 108, 115, 50, 22, 58, 58, 69, 105, 121,
       121, 3, 61, 92, 65, 55, 39, 41, 71, 125, 121, 107, 78, 56, 47, 60, 52,
       50, 59, 95, 46, 67, 15>>)
    @@
    (26 :> <<
       95, 116, 25, 84, 26, 55, 76, 69, 7, 16, 99, 121, 97, 61, 5, 93, 87, 79,
       64, 21, 81, 54, 122, 31, 126, 95, 52, 91, 108, 25, 100, 88, 124, 109,
       3, 85, 120, 109, 28, 18, 16, 27, 76, 61, 107, 97, 122, 49, 46, 31, 105,
       74, 3, 3, 123, 94, 37, 108, 69, 68, 15, 65, 5, 82, 0, 59, 76, 84, 71,
       40, 104, 40, 108, 85, 54, 55, 108, 88, 25, 7, 112, 121, 32, 25, 120,
       79, 49, 110, 54, 77, 66, 19, 7, 12, 9, 16, 69, 70, 91, 99, 5, 6, 52,
       27, 47, 76, 99, 126, 126, 116, 11, 109, 69, 41, 13, 52, 100, 5, 120,
       53, 90, 58, 74, 9, 5, 45, 12, 86, 30, 101, 10, 123, 17, 86, 122, 35,
       44, 112, 116, 103, 97, 77, 99, 122, 116, 87, 89, 55, 44, 66, 60, 77,
       49, 91, 4, 123, 5, 19, 72, 1, 66, 14, 124, 122, 79, 120, 104, 88, 60,
       4, 74, 23, 104, 78, 4, 88, 2, 103, 54, 6, 37, 124, 54, 20, 8, 37, 21,
       115, 12, 8, 77, 111, 4, 112, 2, 108, 87, 117, 54, 69, 2, 103, 120, 35,
       62, 104, 119, 41, 83, 80, 70, 92, 50, 3, 12, 14, 123, 26, 56, 30, 39,
       29, 18, 107, 76, 64, 125, 49, 51, 79, 103, 40, 89, 10, 65, 117, 83, 8,
       93, 19, 118, 88, 5, 3, 18, 50, 31, 41, 8, 25, 35, 41, 55, 60, 27, 84,
       63, 30, 0, 67, 116, 124, 91, 12, 13, 2, 27, 27, 96, 12, 18, 71, 93, 17,
       4, 123, 79, 124, 87, 93, 69, 21, 101, 21, 120, 67, 126, 7, 6, 49, 62,
       68, 14, 53, 95, 94, 26, 43, 21, 29, 7, 70, 1, 38, 33, 53, 24, 86, 67,
       56, 104, 74, 92, 63, 41, 123, 32, 97, 99, 100, 35, 115, 82, 37, 124,
       104, 74, 106, 60, 100, 6, 106, 33, 51, 121, 113, 7, 99, 6, 127, 77,
       102, 39, 23, 76, 37, 29, 124, 28, 72, 32, 64, 91, 53, 88, 77, 3, 77,
       90, 40, 97, 26, 59, 37, 12, 106, 1, 97, 125, 65, 12, 107, 0, 110, 7,
       95, 116, 87, 127, 76, 97, 74, 120, 102, 103, 119, 9, 17, 48, 87, 82,
       122, 88, 10, 97, 89, 88, 45, 15, 61, 50, 63, 121, 97, 82, 111, 24, 99,
       53, 32, 122, 76, 33, 96, 12, 81, 103, 62, 83, 8, 47, 105, 59, 28, 34,
       18, 88, 13, 38, 97, 70, 28, 118, 93, 84, 72, 44, 126, 17, 105, 63, 124,
       6, 75, 98, 79, 59, 13, 57, 61, 38, 28, 89, 107, 56, 95, 56, 61, 26, 20,
       10, 35, 9, 76, 29, 72, 94, 105, 84, 103, 24, 98, 4, 13, 34, 99, 87, 82,
       31, 73, 58, 111, 15, 22, 101, 45, 73, 52, 56, 113, 126, 54, 65, 25, 35,
       27, 87, 12, 121, 89, 79, 99, 118, 16, 70, 50, 38, 62, 82, 121, 8, 57,
       126, 67, 64, 117, 4, 121, 38, 18, 79, 82, 109, 121, 117, 80, 46, 82,
       114, 63, 65, 46, 73, 45, 111, 82, 91, 110, 72, 85, 2, 86, 43, 125, 95,
       97, 53, 90, 3, 95, 109, 1, 46, 20, 94, 123, 44, 126, 46, 30, 75, 17,
       65, 7, 118, 95, 75, 65, 45, 52, 71, 10, 96, 18, 94, 124, 1, 29, 66, 90,
       114, 78, 60, 63, 20, 100, 18, 74, 68, 13, 103, 115, 97, 48, 50, 32, 6,
       88, 39, 53, 75, 37, 63, 74, 50, 75, 26, 7, 57, 35, 20, 97, 81, 31, 19,
       100, 19, 47, 119, 72, 3, 115, 45, 68, 63, 79, 13, 20, 46, 45, 113, 100,
       98, 108, 42, 82, 49, 62, 35, 36, 106, 54, 40, 53, 96, 120, 123, 63, 36,
       39, 80, 104, 104, 80, 68, 35, 118, 49, 35, 117, 60, 62, 45, 88, 36, 86,
       122, 75, 7, 117, 45, 51, 126, 73, 33, 102, 85, 23, 111, 84, 30, 76, 27,
       61, 86, 25, 8, 10, 77, 46, 113, 19, 115, 112, 116, 24, 61, 43, 104, 7,
       122, 91, 89, 63, 32, 104, 97, 30, 65, 38, 54, 95, 21, 125, 105, 69, 85,
       114, 4, 48, 25, 122, 5, 104, 69, 7, 92, 90, 43, 43, 24, 46, 49, 52, 78,
       37, 6, 125, 10, 10, 84, 41, 116, 45, 73, 100, 9, 59, 65, 0, 34, 3, 69,
       80, 33, 15, 32, 98, 123, 59, 46, 38, 56, 38, 127, 122, 56, 113, 42, 38,
       33, 83, 20, 39, 106, 34, 120, 63, 76, 1, 79, 44, 13, 119, 8, 102, 47,
       112, 7, 11, 91, 5, 90, 115, 108, 96, 48, 30, 63, 90, 7, 73, 53, 9, 116,
       52, 28, 96, 74, 65, 69, 85, 29, 62, 37, 60, 13, 100, 106, 36, 111, 74,
       107, 21, 115, 11, 2, 83, 13, 3, 37, 116, 18, 74, 87, 19, 76, 85, 43,
       100, 127, 38, 2, 108, 27, 72, 22, 122, 6, 67, 38, 86, 85, 56, 125, 125,
       70, 119, 28, 25, 66, 25, 71, 36, 23, 9, 85, 64, 112, 15, 86, 85, 14,
       53, 72, 0, 123, 7, 92, 54, 44, 23, 33, 75, 100, 105, 37, 1, 124, 124,
       122, 50, 74, 36, 18, 54, 78, 45, 68, 120, 1, 45, 7, 41, 60, 55, 57, 39,
       16, 27, 98, 14, 82, 125, 33, 112, 99, 61, 74, 73, 46, 30, 82, 1, 16,
       16, 6, 76, 87, 78, 65, 8, 46, 75, 55, 67, 82, 67, 16, 16, 82, 74, 18,
       87, 118, 75, 34, 94, 78, 39, 79, 98, 11, 86, 18, 120, 118, 43, 124, 65,
       108, 85, 110, 51, 118, 24, 42, 108, 25, 113, 22, 111, 43, 116, 17, 101,
       49, 60, 93, 64, 65, 46, 8, 87, 108, 51, 35, 64, 114, 100, 9, 7, 1, 48,
       36, 64, 82, 112, 118, 24, 69, 101, 100, 66, 5, 77, 40, 12, 57, 36, 28,
       41, 6, 101, 5, 75, 23, 36, 24, 62, 44, 124, 2, 122, 75, 43, 106, 118,
       86, 48, 35, 91, 62, 14, 107, 56, 38, 66, 74, 98, 49, 28, 39, 43, 52,
       95, 106, 28, 101, 126, 11, 66, 88, 0, 101, 84, 78, 85, 16, 62, 115, 89,
       47, 83, 61, 72, 81, 91, 30, 36, 8, 34, 122, 87, 80, 105, 13, 25, 3, 27,
       94, 117, 6, 44, 125, 48, 57, 71, 92, 71, 82, 83, 120, 7, 53, 61, 113,
       80, 61, 67, 43, 97, 61, 27, 33, 123, 36, 56, 89, 17, 110, 126, 17, 58,
       68, 16, 87, 121, 74, 82, 94, 86, 92, 23, 61, 68, 7, 25, 100, 122, 29,
       12, 15, 16, 113, 29, 112, 62, 52, 69, 62, 123, 44, 102, 99, 112, 64,
       108, 118, 110, 112, 55, 30, 113, 90, 104, 69, 114, 67, 110, 18, 47, 6,
       20, 21, 69, 59, 7, 68, 87, 113, 74, 88, 58, 23, 99, 50, 52, 123, 113,
       17, 47, 26, 85, 51, 41, 115, 126, 37, 79, 106, 97, 85, 34, 4, 38, 14,
       50, 94, 96, 71, 59, 29, 24, 57, 5, 79, 55, 26, 126, 118, 19, 64, 39,
       17, 75, 30, 126, 9, 91, 48, 102, 57, 106, 61, 51, 97, 101, 44, 80, 12,
       10, 66, 48, 127, 77, 18, 40, 73, 1, 62, 77, 123, 49, 20, 37, 126, 18,
       44, 32, 1, 101, 82, 8, 50, 55, 113, 32, 117, 37, 101, 106, 114, 32, 57,
       95, 42, 58, 50, 123, 108, 41, 11, 104, 55, 69, 49, 69, 86, 118, 123,
       123, 44, 26, 76, 59, 38, 58, 95, 73, 40, 33, 62, 87, 98, 55, 25, 51,
       45, 107, 104, 119, 92, 66, 122, 82, 107, 11, 58, 115, 79, 0, 73, 120,
       50, 122, 84, 51, 114, 83, 56, 43, 81, 99, 37, 108, 46, 43, 4, 49, 22,
       51, 106, 61, 78, 99, 116, 28, 26, 26, 108, 32, 81, 117, 90, 79, 28, 51,
       109, 5, 45, 121, 120, 78, 23, 24, 110, 115, 36, 56, 54, 77, 3, 58, 116,
       34, 41, 0, 116, 65, 59, 76, 79, 108, 19, 4, 0, 76, 67, 49, 72, 7, 58,
       62, 11, 65, 107, 91, 15, 97, 115, 82, 56, 94, 24, 109, 124, 53, 90, 11,
       92, 103, 96, 20, 57, 95, 84, 72, 46, 76, 48, 109, 24, 95, 89, 47, 8,
       89, 15, 53, 127, 91, 110, 70, 94, 111, 32, 7, 123, 77, 59, 115, 101,
       83, 50, 88, 127, 72, 19, 84, 96, 104, 4, 103, 106, 117, 83, 70, 98,
       105, 16, 73, 119, 33, 41, 102, 9, 28, 44, 109, 77, 83, 83, 119, 4, 78,
       95, 98, 111, 97, 70, 12, 2, 4, 80, 18, 69, 76, 51, 24, 107, 77, 118,
       66, 26, 10, 26, 26, 60, 96, 99, 3, 65, 87, 2, 37, 94, 92, 123, 51, 115,
       8, 114, 23, 3, 18, 31, 18, 35, 117, 95, 82, 16, 99, 47, 84, 25, 0, 20,
       41, 108, 46, 113, 62, 20, 77, 17, 115, 38, 109, 71, 81, 47, 95, 69,
       120, 123, 80, 38, 37, 88, 9, 119, 4, 16, 20, 39, 123, 96, 49, 60, 108,
       29, 88, 15, 33, 100, 49, 33, 97, 82, 59, 66, 56, 102, 91, 16, 49, 92,
       60, 29, 19, 110, 62, 31, 103, 76, 4, 68, 54, 16, 1, 68, 48, 71, 43,
       122, 71, 73, 119, 20, 111, 66, 22, 7, 71, 92, 60, 89, 22, 94, 73, 2,
       102, 27, 96, 50, 45, 117, 122, 2, 3, 80, 18, 48, 75, 98, 81, 57, 102,
       124, 47, 72, 36, 9, 27, 48, 3, 63, 74, 60, 15, 59, 43, 21, 119, 76, 34,
       22, 92, 60, 116, 14, 21, 55, 52, 16, 63, 24, 119, 118, 59, 65, 75, 89,
       111, 114, 118, 51, 97, 82, 122, 121, 60, 46, 65, 124, 97, 64, 55, 119,
       87, 28, 81, 105, 117, 56, 82, 60, 86, 69, 94, 72, 90, 123, 97, 66, 95,
       31, 66, 102, 18, 109, 95, 79, 102, 33, 10, 109, 79, 73, 105, 30, 67,
       122, 63, 73, 116, 0, 70, 18, 109, 35, 77, 99, 37, 57, 82, 101, 70, 58,
       46, 22, 123, 124, 26, 84, 63, 107, 120, 56, 12, 22, 22, 40, 10, 20, 51,
       72, 10, 16, 48, 41, 46, 118, 99, 34, 49, 14, 74, 109, 96, 9, 78, 18,
       100, 72, 115, 91, 105, 97, 53, 71, 110, 88, 96, 20, 16, 119, 71, 16,
       68, 36, 63, 50, 101, 68, 61, 119, 52, 45, 119, 99, 36, 99, 79, 82, 26,
       64, 88, 114, 78, 26, 34, 65, 36, 105, 6, 70, 103, 21, 48, 25, 91, 72,
       86, 95, 73, 4, 73, 23, 67, 10, 49, 41, 8, 99, 89, 123, 45, 118, 126,
       41, 101, 67, 109, 5, 102, 101, 34, 44, 91, 88, 28, 126, 58, 108, 79,
       123, 18, 82, 59, 28, 124, 29, 67, 19, 75, 46, 44, 121, 77, 80, 55, 117,
       68, 62, 18, 27, 93, 33, 52, 9, 57, 39, 37, 59, 25, 14, 96, 106, 40, 2,
       93, 63, 30, 18, 23, 87, 116, 10, 59, 32, 77, 116, 86, 34, 87, 102, 90,
       50, 55, 47, 8, 29, 125, 46, 106, 103, 97, 28, 110, 45, 106, 14, 76,
       127, 110, 6, 17, 42, 18, 78, 0, 105, 125, 113, 113, 75, 126, 56, 102,
       81, 0, 11, 55, 37, 79, 69, 34, 126, 45, 107, 58, 33, 59, 68, 82, 83,
       61, 90, 99, 15, 12, 113, 86, 72, 12, 51, 111, 44, 15, 78, 89, 54, 97,
       7, 69, 55, 38, 53, 84, 89, 94, 52, 55, 34, 19, 79, 19, 126, 105, 68,
       80, 119, 70, 27, 37, 11, 102, 31, 119, 124, 3, 71, 101, 104, 39, 33,
       28, 12, 107, 77, 73, 82, 74, 33, 31, 5, 54, 110, 6, 114, 15, 100, 73,
       22, 33, 110, 2, 54, 82, 73, 6, 96, 89, 35, 109, 52, 80, 122, 97, 104,
       88, 82, 102, 61, 125, 82, 107, 102, 125, 20, 121, 0, 93, 83, 84, 117,
       0, 106, 71, 118, 28, 40, 61, 35, 79, 122, 22, 6, 79, 36, 125, 50, 45,
       22, 15, 101, 124, 19, 25, 96, 55, 76, 85, 79, 65, 54, 105, 19, 96, 2,
       81, 86, 24, 21, 5, 97, 84, 65, 89, 73, 95, 108, 44, 77, 56, 6, 6, 6,
       103, 120, 23, 9, 6, 19, 34, 9, 48, 116, 39, 54, 120, 75, 69, 99, 110,
       35, 127, 87, 41, 22, 37, 80, 58, 0, 107, 116, 98, 44, 103, 26, 95, 120,
       74, 98, 69, 116, 87, 3, 41, 40, 37, 5, 42, 114, 112, 76, 80, 79, 46, 9,
       105, 9, 79, 115, 5, 24, 82, 56, 17, 35, 47, 64, 35, 5, 123, 83, 96,
       104, 55, 74, 123, 53, 51, 112, 99, 28, 85, 19, 25, 47, 48, 120, 127,
       61, 32, 77, 61, 64, 66, 22, 65, 20, 76, 17, 57, 29, 44, 114, 71, 56,
       29, 36, 98, 5, 66, 18, 112, 119, 96, 111, 17, 77, 91, 115, 97, 27, 78,
       57, 115, 1, 118, 55, 6, 30, 58, 96, 18, 75, 32, 98, 77, 5, 23, 115, 49,
       14, 22, 96, 118, 76, 3, 27, 42, 70, 46, 49, 98, 73, 34, 61, 115, 42,
       44, 45, 16, 39, 27, 30, 37, 35, 34, 73, 15, 74, 12, 5, 31, 17, 58, 16,
       98, 13, 84, 87, 49, 82, 78, 27, 59, 66, 68, 13, 107, 120, 27, 104, 36,
       14, 66, 98, 22, 72, 101, 59, 127, 76, 18, 118, 32, 6, 122, 59, 33, 116,
       39, 71, 31, 4, 20, 68, 64, 24, 61, 54, 126, 17, 36, 65, 107, 80, 81,
       119, 55, 40, 77, 12, 6, 11, 70, 71, 86, 27, 118, 29, 79, 104, 56, 20,
       13, 100, 1, 33, 67, 72, 47, 89, 90, 125, 121, 61, 23, 14, 95, 106, 34,
       108, 114, 79, 59, 69, 2, 65, 97, 40, 31, 54, 102, 52, 72, 67, 62, 90,
       126, 69, 40, 26, 83, 71, 20, 106, 39, 31, 84, 82, 9, 74, 41, 104, 56,
       28, 115, 46, 110, 49, 35, 88, 105, 75, 127, 26, 54, 56, 72, 55, 22, 65,
       70, 85, 115, 17, 104, 18, 39, 113, 62, 40, 68, 60, 8, 12, 28, 66, 92,
       46, 126, 60, 28, 95, 49, 29, 43, 106, 79, 101, 126, 94, 32, 61, 48, 13,
       110, 97, 71, 121, 102, 69, 19, 124, 9, 127, 96, 18, 124, 27, 70, 87,
       23, 56, 94, 45, 117, 23, 120, 74, 14, 122, 5, 24, 127, 104, 83, 95,
       105, 95, 37, 44, 72, 36, 40, 43, 108, 17, 74, 68, 64, 78, 79, 68, 107,
       62, 63, 23, 54, 35, 53, 95, 39, 111, 31, 98, 86, 1, 114, 85, 65, 106,
       89, 52, 34, 4, 57, 26, 3, 34, 24, 29, 14, 75, 40, 120, 9, 31, 124, 14,
       62, 68, 57, 88, 31, 30, 81, 89, 68, 35, 83, 75, 87, 25, 44, 116, 47,
       82, 25, 80, 91, 61, 30, 101, 5, 7, 125, 123, 8, 46, 64, 52, 41, 96, 72,
       106, 26, 20, 8, 59, 122, 96, 111, 31, 36, 63, 93, 37, 32, 117, 85, 48,
       123, 64, 25, 47, 18, 21, 68, 53, 125, 97, 107, 41, 70, 19, 16, 88, 66,
       25, 108, 22, 113, 14, 45, 116, 40, 89, 77, 46, 109, 48, 35, 122, 19,
       63, 32, 93, 109, 120, 109, 78, 34, 85, 83, 66, 113, 55, 20, 107, 42,
       62, 40, 70, 85, 65, 67, 64, 82, 55, 74, 8, 110, 9, 80, 54, 111, 120,
       30, 104, 31, 23, 27, 96, 17, 115, 88, 58, 11, 43, 124, 38, 94, 84, 12,
       29, 64, 34, 76, 58, 65, 27, 69, 106, 84, 107, 111, 77, 41, 50, 34, 102,
       64, 9, 32, 91, 92, 14, 103, 49, 96, 92, 116, 88, 32, 21, 46, 63, 57,
       44, 29, 116, 47, 107, 115, 50, 95, 67, 120, 82, 77, 98, 28, 110, 94,
       121, 14, 38, 76, 11, 51, 53, 43, 124, 62, 114, 81, 29, 97, 53, 120, 17,
       12, 42, 48, 120, 78, 84, 1, 7, 86, 47, 52, 84, 11, 87, 69, 53, 73, 38,
       107, 125, 97, 50, 26, 85, 57, 48, 22, 124, 87, 121, 62, 15, 98, 118, 8,
       6, 54, 19, 5, 38, 122, 34, 120, 44, 126, 102, 38, 102, 44, 25, 29, 106,
       78, 28, 109, 103, 5, 73, 45, 112, 127, 22, 66, 116, 27, 108, 47, 32,
       92, 117, 40, 43, 64, 69, 116, 68, 94, 30, 2, 64, 101, 64, 0, 90, 79,
       94, 111, 125, 89, 62, 64, 2, 11, 18, 48, 69, 20, 68, 119, 100, 64, 17,
       63, 109, 76, 51, 32, 122, 59, 21, 28, 86, 42, 39, 82, 34, 6, 67, 108,
       60, 91, 27, 1, 106, 81, 95, 124, 73, 122, 33, 110, 54, 35, 92, 52, 80,
       90, 18, 5, 81, 46, 101, 64, 110, 100, 9, 73, 19, 17, 15, 120, 94, 72,
       55, 39, 58, 14, 119, 97, 31, 4, 85, 69, 85, 92, 62, 5, 101, 2, 71, 43,
       92, 13, 32, 41, 2, 14, 103, 99, 79, 60, 80, 75, 91, 10, 12, 54, 32, 19,
       70, 122, 70, 35, 108, 50, 32, 57, 60, 1, 103, 50, 99, 13, 14, 71, 48,
       47, 84, 119, 98, 59, 88, 123, 94, 121, 70, 61, 95, 122, 16, 43, 103,
       63, 112, 6, 124, 99, 80, 97, 77, 107, 12, 73, 93, 72, 51, 2, 54, 54,
       64, 65, 29, 74, 73, 71, 112, 56, 32, 22, 33, 88, 7, 97, 112, 114, 42,
       7, 18, 4, 106, 88, 34, 61, 30, 106, 9, 90, 82, 105, 34, 35, 120, 79,
       85, 112, 39, 53, 45, 8, 32, 23>>)
    @@
    (27 :> <<
       83, 61, 89, 35, 122, 36, 25, 9, 8, 32, 105, 69, 42, 32, 47, 106, 104,
       51, 23, 31, 116, 30, 62, 105, 9, 93, 117, 81, 73, 83, 10, 78, 107, 54,
       99, 53, 94, 6, 84, 56, 127, 44, 1, 108, 124, 104, 82, 61, 32, 17, 78,
       120, 43, 78, 83, 29, 90, 104, 67, 18, 12, 124, 50, 96, 38, 116, 95,
       101, 119, 4, 99, 87, 67, 10, 21, 58, 90, 19, 33, 69, 127, 6, 22, 124,
       123, 83, 1, 57, 99, 19, 44, 113, 73, 73, 53, 8, 39, 127, 56, 111, 104,
       59, 45, 1, 46, 20, 100, 33, 22, 61, 45, 112, 66, 7, 66, 31, 21, 26, 97,
       94, 62, 71, 11, 42, 43, 97, 7, 50, 43, 81, 14, 38, 32, 101, 71, 89, 88,
       10, 38, 58, 59, 36, 65, 15, 74, 2, 116, 36, 27, 113, 98, 61, 70, 69,
       114, 123, 87, 15, 0, 75, 7, 47, 102, 24, 37, 89, 78, 109, 12, 4, 71,
       54, 52, 95, 58, 94, 0, 23, 114, 122, 108, 45, 94, 1, 79, 24, 29, 48,
       24, 126, 107, 95, 42, 106, 49, 105, 112, 8, 44, 126, 127, 5, 23, 8,
       109, 10, 37, 29, 17, 121, 59, 77, 105, 61, 13, 29, 76, 47, 109, 35, 3,
       84, 62, 20, 39, 68, 59, 27, 106, 125, 55, 102, 38, 85, 26, 65, 104,
       103, 19, 91, 91, 42, 127, 72, 88, 7, 115, 29, 15, 60, 77, 78, 77, 89,
       10, 31, 55, 40, 39, 5, 16, 13, 51, 113, 11, 47, 117, 26, 21, 96, 69,
       94, 90, 122, 2, 23, 120, 56, 117, 6, 74, 76, 66, 104, 108, 56, 77, 6,
       28, 35, 119, 69, 25, 12, 71, 76, 69, 126, 98, 56, 46, 42, 81, 64, 26,
       50, 89, 24, 20, 1, 44, 30, 66, 25, 92, 41, 116, 127, 123, 48, 60, 43,
       8, 31, 76, 9, 74, 97, 93, 111, 6, 89, 101, 80, 16, 6, 106, 77, 125, 62,
       69, 11, 57, 13, 84, 95, 17, 39, 84, 73, 108, 62, 119, 125, 89, 42, 91,
       67, 123, 69, 48, 106, 43, 79, 126, 117, 8, 63, 44, 46, 95, 61, 120, 38,
       102, 62, 24, 78, 102, 83, 28, 125, 67, 93, 78, 71, 125, 30, 28, 93, 44,
       13, 39, 88, 37, 82, 21, 97, 51, 62, 34, 53, 33, 3, 106, 23, 14, 67, 59,
       68, 5, 97, 7, 57, 108, 30, 100, 33, 119, 12, 14, 19, 99, 31, 38, 70,
       101, 90, 72, 104, 55, 127, 79, 119, 33, 35, 68, 5, 107, 22, 82, 7, 96,
       58, 123, 93, 15, 10, 99, 31, 122, 101, 69, 114, 43, 87, 81, 19, 14, 92,
       96, 2, 95, 29, 3, 104, 68, 32, 63, 43, 93, 0, 54, 80, 10, 68, 2, 47,
       36, 86, 12, 15, 22, 106, 78, 101, 113, 19, 22, 2, 71, 36, 62, 106, 82,
       95, 122, 5, 47, 89, 75, 15, 63, 82, 19, 42, 59, 43, 123, 35, 94, 94,
       25, 75, 42, 33, 24, 99, 52, 64, 58, 68, 17, 8, 55, 83, 126, 55, 50,
       108, 81, 86, 124, 75, 49, 126, 43, 55, 55, 110, 20, 115, 8, 15, 17,
       116, 87, 55, 99, 24, 98, 95, 18, 114, 36, 62, 116, 65, 92, 119, 49, 42,
       95, 22, 34, 42, 11, 12, 116, 111, 110, 9, 63, 21, 53, 3, 117, 66, 71,
       1, 124, 109, 1, 82, 82, 23, 32, 64, 91, 62, 117, 122, 2, 39, 85, 102,
       104, 101, 61, 113, 15, 110, 63, 70, 88, 52, 68, 50, 72, 49, 41, 111,
       41, 71, 31, 0, 93, 32, 1, 87, 76, 104, 84, 108, 57, 2, 54, 21, 99, 86,
       64, 48, 7, 28, 92, 85, 124, 68, 125, 53, 110, 70, 5, 64, 71, 35, 24,
       79, 105, 111, 16, 16, 64, 90, 114, 62, 24, 1, 96, 63, 124, 70, 56, 119,
       62, 24, 10, 79, 116, 49, 20, 26, 95, 61, 92, 107, 34, 30, 125, 39, 118,
       59, 79, 66, 53, 6, 62, 48, 56, 75, 84, 96, 126, 26, 12, 38, 35, 94, 67,
       100, 79, 18, 88, 6, 117, 14, 106, 14, 46, 58, 52, 71, 71, 61, 119, 51,
       28, 52, 18, 86, 39, 8, 90, 59, 81, 33, 55, 103, 63, 90, 86, 89, 109,
       106, 4, 109, 65, 126, 4, 70, 98, 88, 63, 121, 117, 94, 88, 102, 100, 0,
       62, 10, 98, 85, 32, 23, 21, 35, 75, 92, 63, 123, 69, 107, 103, 76, 69,
       57, 86, 63, 87, 48, 54, 127, 102, 110, 86, 104, 77, 69, 112, 89, 84,
       12, 58, 81, 31, 60, 109, 2, 122, 109, 53, 27, 76, 5, 74, 106, 93, 48,
       68, 41, 89, 11, 102, 65, 33, 72, 91, 80, 99, 36, 76, 62, 120, 121, 117,
       46, 31, 109, 53, 95, 113, 12, 109, 45, 26, 112, 27, 48, 20, 8, 126, 61,
       6, 29, 103, 7, 95, 42, 62, 100, 7, 7, 56, 117, 123, 18, 15, 62, 54, 4,
       98, 14, 31, 54, 44, 49, 66, 60, 56, 85, 83, 70, 122, 85, 0, 98, 90, 66,
       50, 105, 15, 37, 86, 111, 91, 81, 96, 121, 72, 49, 1, 59, 36, 84, 96,
       124, 25, 103, 85, 29, 41, 14, 71, 62, 93, 13, 42, 9, 15, 53, 123, 59,
       58, 24, 102, 21, 17, 8, 85, 93, 101, 71, 72, 124, 90, 93, 122, 28, 0,
       17, 76, 28, 98, 35, 110, 66, 80, 79, 83, 67, 99, 118, 19, 24, 43, 10,
       12, 8, 32, 18, 9, 12, 23, 94, 84, 125, 23, 64, 26, 38, 72, 6, 43, 9,
       20, 93, 13, 2, 114, 114, 69, 96, 23, 125, 29, 4, 36, 3, 120, 14, 99, 6,
       41, 81, 37, 122, 102, 48, 49, 18, 61, 99, 46, 53, 51, 34, 117, 51, 80,
       49, 122, 30, 51, 78, 126, 92, 91, 7, 106, 1, 56, 33, 30, 76, 109, 108,
       16, 23, 73, 14, 62, 89, 126, 84, 93, 23, 95, 94, 8, 121, 45, 97, 86,
       42, 117, 1, 100, 56, 123, 35, 105, 8, 67, 126, 124, 57, 26, 65, 64, 56,
       30, 82, 113, 100, 66, 85, 39, 31, 122, 57, 31, 107, 117, 116, 75, 122,
       107, 31, 122, 65, 64, 66, 17, 92, 81, 29, 104, 59, 20, 65, 16, 72, 15,
       115, 55, 78, 99, 31, 117, 55, 20, 47, 62, 104, 67, 114, 110, 18, 1, 1,
       3, 71, 39, 9, 20, 62, 49, 92, 24, 37, 123, 66, 24, 39, 114, 98, 38, 32,
       14, 50, 40, 76, 114, 79, 125, 91, 72, 109, 90, 26, 79, 59, 86, 58, 117,
       12, 83, 101, 116, 21, 48, 30, 81, 90, 58, 0, 68, 5, 21, 61, 101, 51,
       70, 112, 100, 123, 91, 65, 51, 126, 2, 0, 126, 4, 74, 69, 19, 55, 74,
       26, 40, 108, 29, 79, 28, 26, 79, 21, 22, 12, 82, 90, 28, 75, 8, 120,
       103, 90, 4, 43, 61, 71, 15, 61, 59, 115, 114, 109, 70, 36, 109, 95, 77,
       115, 30, 19, 19, 93, 106, 109, 98, 94, 5, 121, 117, 66, 86, 119, 112,
       52, 52, 95, 101, 70, 54, 26, 80, 96, 70, 31, 75, 26, 69, 72, 16, 80,
       63, 82, 29, 84, 9, 89, 46, 79, 26, 38, 54, 108, 105, 87, 9, 92, 26, 61,
       121, 120, 110, 10, 115, 117, 94, 49, 67, 100, 54, 40, 15, 116, 92, 63,
       73, 65, 76, 109, 55, 118, 98, 121, 100, 21, 78, 126, 68, 125, 48, 73,
       81, 115, 122, 25, 27, 31, 40, 32, 106, 97, 31, 45, 62, 20, 126, 7, 44,
       70, 22, 115, 99, 66, 75, 43, 87, 84, 115, 94, 52, 14, 56, 113, 104, 71,
       7, 18, 57, 92, 39, 37, 94, 52, 53, 0, 10, 82, 69, 37, 126, 44, 15, 29,
       7, 47, 17, 124, 104, 37, 0, 74, 58, 105, 97, 60, 60, 8, 4, 20, 105, 52,
       16, 108, 71, 71, 58, 27, 79, 8, 70, 28, 118, 64, 104, 4, 122, 5, 3, 28,
       123, 54, 31, 67, 94, 32, 1, 29, 99, 77, 109, 98, 110, 90, 113, 124, 15,
       54, 99, 1, 88, 14, 73, 35, 29, 33, 97, 56, 65, 28, 63, 18, 31, 21, 61,
       103, 10, 44, 110, 101, 63, 83, 68, 92, 90, 81, 0, 42, 119, 69, 0, 75,
       30, 48, 96, 27, 46, 102, 95, 93, 77, 33, 124, 122, 7, 101, 21, 118,
       107, 47, 16, 116, 102, 27, 39, 11, 112, 29, 85, 112, 15, 95, 8, 115,
       13, 27, 127, 17, 41, 1, 23, 123, 28, 37, 38, 63, 100, 73, 116, 21, 81,
       16, 98, 92, 105, 14, 12, 95, 50, 40, 122, 73, 87, 59, 71, 0, 102, 29,
       87, 86, 115, 122, 10, 42, 108, 46, 65, 68, 78, 16, 18, 5, 88, 102, 104,
       77, 95, 1, 63, 105, 30, 104, 96, 8, 127, 83, 8, 69, 101, 12, 100, 86,
       4, 124, 10, 117, 67, 77, 86, 15, 35, 104, 39, 50, 117, 91, 82, 22, 105,
       23, 49, 126, 110, 48, 76, 21, 100, 108, 94, 97, 122, 109, 47, 75, 106,
       72, 70, 7, 62, 100, 55, 20, 73, 33, 46, 56, 16, 89, 59, 64, 57, 27, 31,
       56, 123, 61, 116, 25, 53, 20, 80, 113, 120, 75, 41, 53, 45, 34, 121,
       26, 51, 39, 97, 95, 63, 9, 59, 39, 96, 119, 10, 89, 60, 87, 2, 9, 43,
       108, 44, 47, 77, 100, 29, 42, 91, 30, 90, 127, 44, 7, 8, 108, 70, 56,
       5, 37, 101, 18, 82, 0, 9, 114, 68, 1, 102, 110, 16, 26, 31, 107, 79,
       87, 85, 86, 53, 39, 111, 101, 47, 7, 24, 56, 17, 71, 44, 32, 108, 0,
       41, 53, 119, 21, 77, 9, 125, 7, 82, 102, 54, 67, 50, 85, 123, 69, 94,
       58, 108, 49, 58, 117, 94, 102, 126, 24, 88, 121, 20, 56, 18, 93, 57,
       28, 119, 105, 8, 65, 22, 54, 63, 119, 17, 34, 78, 119, 115, 90, 95, 85,
       11, 73, 58, 18, 103, 106, 58, 101, 37, 12, 100, 109, 111, 84, 117, 57,
       105, 47, 123, 43, 23, 9, 59, 6, 96, 117, 109, 113, 120, 57, 52, 20, 20,
       43, 17, 49, 81, 93, 116, 64, 23, 23, 17, 67, 30, 14, 44, 99, 0, 59, 65,
       37, 121, 124, 51, 113, 126, 114, 78, 115, 38, 125, 90, 67, 12, 27, 16,
       80, 6, 18, 110, 68, 57, 96, 64, 55, 123, 102, 27, 17, 111, 14, 6, 21,
       46, 44, 112, 44, 10, 25, 49, 60, 91, 22, 109, 83, 113, 85, 37, 57, 18,
       59, 13, 6, 108, 45, 122, 6, 30, 58, 47, 26, 19, 32, 87, 89, 22, 11, 59,
       65, 77, 111, 107, 116, 114, 95, 116, 40, 53, 111, 78, 102, 57, 113,
       110, 102, 52, 43, 41, 41, 49, 25, 49, 81, 98, 100, 34, 63, 30, 54, 41,
       61, 1, 120, 114, 107, 81, 126, 127, 76, 98, 33, 18, 53, 118, 29, 70,
       10, 91, 22, 110, 19, 50, 18, 101, 31, 0, 31, 96, 74, 114, 21, 17, 100,
       60, 27, 70, 2, 114, 55, 102, 40, 28, 105, 41, 109, 39, 24, 14, 35, 15,
       7, 18, 94, 73, 50, 84, 65, 127, 93, 81, 109, 11, 94, 28, 127, 102, 77,
       38, 67, 106, 20, 123, 94, 105, 49, 73, 14, 52, 109, 78, 35, 125, 113,
       33, 76, 87, 46, 90, 68, 57, 107, 55, 72, 4, 109, 126, 60, 46, 54, 97,
       61, 31, 62, 56, 4, 12, 40, 103, 36, 124, 122, 119, 27, 68, 98, 61, 60,
       55, 63, 86, 58, 21, 89, 78, 48, 44, 123, 42, 29, 94, 25, 121, 13, 49,
       19, 35, 117, 88, 81, 93, 51, 36, 47, 53, 73, 89, 122, 81, 71, 113, 97,
       59, 41, 33, 50, 0, 37, 54, 16, 98, 57, 107, 83, 92, 37, 1, 32, 31, 57,
       53, 21, 62, 80, 80, 127, 35, 49, 124, 109, 85, 28, 108, 76, 22, 73, 13,
       119, 0, 68, 99, 39, 106, 16, 94, 85, 61, 0, 63, 83, 38, 82, 102, 24,
       96, 68, 85, 95, 73, 93, 108, 44, 11, 114, 18, 41, 111, 123, 14, 107,
       91, 51, 8, 127, 10, 37, 46, 29, 1, 30, 41, 6, 40, 60, 94, 67, 123, 110,
       77, 112, 103, 56, 108, 23, 81, 75, 47, 80, 120, 125, 95, 68, 38, 105,
       113, 86, 11, 10, 25, 32, 3, 43, 37, 103, 75, 53, 80, 86, 121, 111, 87,
       27, 77, 71, 58, 29, 122, 92, 5, 3, 82, 31, 37, 4, 63, 81, 125, 48, 120,
       64, 28, 100, 23, 72, 40, 46, 31, 70, 6, 24, 25, 126, 107, 45, 65, 110,
       38, 3, 55, 18, 55, 59, 18, 31, 25, 107, 117, 98, 115, 66, 38, 62, 47,
       116, 41, 46, 7, 8, 53, 80, 50, 75, 2, 121, 28, 100, 10, 103, 111, 95,
       29, 46, 74, 58, 81, 98, 74, 93, 82, 1, 19, 69, 51, 125, 5, 126, 70, 38,
       65, 1, 21, 56, 123, 100, 109, 19, 49, 2, 68, 93, 62, 102, 94, 67, 80,
       117, 84, 102, 85, 100, 6, 81, 32, 36, 64, 35, 113, 124, 59, 71, 108,
       58, 67, 41, 21, 123, 75, 11, 24, 121, 41, 92, 55, 125, 95, 109, 41, 23,
       47, 121, 126, 120, 18, 124, 55, 122, 67, 12, 127, 40, 7, 82, 7, 120,
       89, 114, 19, 121, 46, 79, 91, 71, 92, 102, 29, 108, 53, 56, 94, 58, 95,
       45, 55, 15, 89, 112, 12, 54, 49, 72, 1, 87, 17, 52, 0, 105, 7, 107, 98,
       41, 87, 75, 35, 59, 123, 89, 42, 62, 108, 28, 20, 39, 1, 65, 91, 121,
       74, 53, 109, 29, 49, 37, 93, 114, 88, 1, 74, 26, 41, 9, 108, 34, 106,
       74, 51, 92, 49, 124, 63, 62, 75, 65, 108, 61, 118, 82, 121, 1, 15, 24,
       69, 8, 76, 35, 115, 51, 62, 47, 67, 30, 96, 77, 119, 126, 9, 8, 18,
       125, 9, 111, 39, 102, 56, 81, 46, 113, 78, 75, 14, 124, 12, 117, 113,
       19, 74, 60, 76, 55, 62, 34, 103, 97, 95, 91, 10, 28, 116, 34, 53, 75,
       91, 80, 40, 43, 95, 24, 123, 66, 63, 11, 17, 1, 77, 26, 67, 6, 82, 112,
       73, 26, 73, 114, 44, 31, 66, 73, 114, 126, 11, 86, 1, 59, 80, 117, 31,
       60, 20, 91, 95, 75, 83, 46, 102, 94, 50, 9, 3, 126, 54, 21, 42, 58, 70,
       95, 79, 63, 87, 33, 89, 48, 84, 104, 97, 88, 15, 78, 68, 28, 4, 0, 36,
       69, 50, 10, 53, 22, 45, 68, 92, 58, 54, 79, 106, 127, 8, 52, 126, 48,
       102, 18, 1, 93, 60, 35, 112, 43, 29, 125, 96, 122, 76, 1, 81, 35, 101,
       16, 107, 88, 28, 78, 127, 104, 64, 26, 85, 15, 100, 57, 106, 68, 33,
       32, 67, 34, 17, 88, 30, 85, 52, 120, 110, 12, 10, 101, 21, 64, 97, 46,
       98, 72, 56, 78, 72, 76, 11, 64, 109, 47, 118, 68, 122, 7, 51, 120, 12,
       70, 52, 86, 81, 47, 17, 3, 24, 28, 35, 15, 58, 108, 59, 11, 127, 7,
       106, 57, 104, 43, 76, 55, 68, 85, 76, 15, 59, 68, 20, 116, 125, 103,
       50, 0, 40, 10, 86, 81, 49, 43, 123, 119, 110, 102, 127, 10, 52, 111,
       16, 44, 123, 110, 59, 96, 46, 32, 92, 99, 114, 29, 4, 72, 7, 19, 117,
       126, 13, 123, 33, 73, 103, 14, 41, 6, 108, 35, 31, 85, 106, 23, 106,
       105, 126, 113, 103, 2, 10, 34, 29, 82, 13, 108, 74, 45, 24, 27, 80,
       125, 104, 55, 24, 63, 106, 11, 95, 38, 1, 34, 106, 73, 88, 41, 89, 1,
       82, 49, 119, 105, 82, 43, 40, 99, 2, 55, 87, 57, 38, 61, 83, 28, 101,
       82, 55, 31, 61, 31, 24, 5, 40, 56, 33, 10, 81, 40, 3, 99, 46, 5, 9,
       103, 86, 78, 103, 81, 19, 123, 26, 95, 86, 34, 63, 26, 113, 71, 77, 88,
       113, 80, 39, 65, 77, 100, 69, 57, 106, 95, 123, 82, 3, 9, 110, 43, 21,
       127, 37, 112, 93, 3, 33, 9, 105, 76, 79, 82, 118, 88, 82, 78, 110, 77,
       47, 71, 46, 77, 127, 61, 106, 83, 10, 61, 74, 82, 80, 127, 21, 64, 90,
       26, 46, 66, 62, 66, 2, 77, 5, 11, 56, 46, 114, 83, 92, 58, 97, 87, 2,
       55, 37, 26, 82, 4, 51, 124, 106, 25, 16, 123, 59, 63, 29, 66, 105, 104,
       12, 25, 49, 71, 30, 21, 3, 62, 124, 109, 74, 63, 66, 122, 121, 110, 97,
       87, 125, 91, 96, 58, 49, 20, 53, 115, 75, 127, 83, 63, 61, 9, 38, 70,
       58, 33, 100, 12, 77, 19, 64, 74, 29, 79, 97, 83, 118, 67, 98, 94, 90,
       89, 110, 32, 101, 53, 107, 7, 91, 11, 5, 34, 127, 72, 126, 86, 31, 64,
       23, 57, 18, 22, 34, 61, 57, 3, 8, 36, 54, 103, 27, 28, 79, 71, 115,
       122, 99, 2, 6, 63, 63, 74, 56, 113, 120, 0, 30, 21, 95, 54, 23, 9, 19,
       75, 116, 15, 14, 32, 15, 45, 24, 83, 11, 88, 75, 46, 15, 55, 117, 21,
       53, 85, 110, 84, 66, 50, 0, 102, 95, 25, 83, 15, 58, 107, 25, 6, 64,
       92, 77, 47, 117, 126, 94, 49, 7, 79, 127, 114, 2, 33, 15, 27, 7, 58,
       102, 94, 99, 77, 76, 25, 56, 1, 17, 36, 90, 119, 89, 99, 97, 123, 102,
       107, 37, 95, 8, 78, 2, 45>>)
    @@
    (83 :> <<
       63, 108, 109, 58, 11, 16, 48, 4, 6, 121, 83, 27, 24, 22, 39, 10, 104,
       125, 6, 52, 19, 45, 38, 71, 103, 25, 60, 100, 80, 90, 115, 118, 29,
       105, 57, 123, 21, 5, 100, 3, 2, 123, 96, 59, 44, 49, 73, 92, 23, 70,
       119, 111, 40, 61, 58, 101, 120, 111, 76, 108, 41, 56, 29, 17, 116, 96,
       91, 52, 80, 65, 70, 23, 117, 72, 16, 1, 47, 56, 104, 24, 84, 57, 79, 4,
       84, 15, 60, 75, 71, 116, 54, 18, 121, 27, 34, 125, 32, 12, 40, 9, 20,
       13, 78, 52, 74, 76, 8, 23, 32, 103, 113, 59, 34, 40, 85, 84, 52, 63,
       20, 72, 124, 43, 81, 74, 31, 70, 74, 82, 38, 76, 101, 109, 2, 64, 55,
       57, 80, 50, 94, 85, 13, 116, 6, 111, 58, 14, 75, 90, 59, 20, 7, 61, 34,
       60, 90, 9, 66, 50, 120, 86, 6, 55, 78, 18, 75, 88, 57, 48, 8, 37, 48,
       104, 40, 48, 21, 28, 106, 113, 11, 118, 4, 80, 115, 13, 121, 65, 82,
       92, 64, 119, 91, 122, 6, 114, 32, 6, 62, 55, 14, 94, 113, 7, 75, 71,
       30, 118, 77, 53, 107, 53, 82, 121, 113, 12, 98, 8, 70, 36, 116, 70,
       112, 100, 36, 60, 27, 64, 19, 31, 91, 56, 103, 54, 68, 28, 126, 13, 43,
       93, 29, 125, 45, 108, 87, 56, 56, 75, 118, 92, 46, 111, 111, 2, 91, 20,
       67, 74, 125, 99, 86, 85, 113, 46, 126, 73, 90, 62, 55, 61, 36, 59, 120,
       16, 45, 77, 119, 18, 37, 69, 28, 104, 119, 32, 84, 17, 19, 103, 58, 44,
       30, 52, 54, 7, 83, 124, 88, 113, 114, 8, 126, 26, 40, 35, 41, 103, 126,
       20, 68, 2, 94, 75, 18, 84, 24, 21, 36, 8, 53, 23, 56, 127, 110, 37, 96,
       108, 64, 68, 122, 3, 126, 22, 121, 78, 25, 124, 41, 110, 6, 58, 20, 40,
       107, 6, 9, 3, 85, 20, 1, 107, 106, 44, 7, 121, 81, 88, 110, 95, 49, 36,
       59, 71, 118, 63, 111, 48, 113, 115, 74, 43, 106, 33, 112, 89, 67, 121,
       86, 89, 86, 22, 25, 84, 92, 70, 52, 35, 99, 4, 64, 59, 108, 58, 53,
       121, 99, 46, 33, 60, 84, 98, 44, 98, 6, 73, 6, 34, 85, 100, 29, 79, 37,
       32, 76, 43, 101, 25, 1, 103, 49, 113, 96, 0, 27, 63, 12, 88, 119, 121,
       56, 94, 108, 23, 4, 60, 64, 24, 83, 64, 13, 64, 99, 30, 65, 84, 102,
       85, 84, 97, 92, 23, 120, 64, 108, 111, 125, 14, 12, 51, 12, 89, 75,
       109, 24, 65, 38, 70, 62, 107, 109, 71, 10, 91, 119, 115, 42, 81, 127,
       41, 56, 37, 74, 82, 34, 73, 74, 106, 53, 8, 84, 39, 2, 23, 76, 33, 110,
       96, 73, 77, 86, 41, 59, 73, 21, 28, 86, 63, 10, 34, 29, 78, 96, 31, 56,
       14, 65, 11, 84, 76, 87, 69, 51, 69, 93, 8, 28, 5, 96, 121, 11, 28, 19,
       4, 65, 117, 36, 72, 91, 105, 107, 29, 61, 111, 15, 102, 0, 75, 50, 65,
       112, 120, 76, 89, 115, 65, 103, 99, 96, 26, 97, 0, 9, 64, 62, 30, 49,
       119, 33, 13, 106, 9, 59, 84, 87, 62, 79, 108, 33, 64, 64, 11, 49, 66,
       47, 112, 76, 39, 41, 80, 2, 106, 92, 65, 91, 26, 12, 51, 64, 38, 92,
       14, 1, 9, 75, 35, 61, 68, 94, 38, 71, 5, 79, 70, 86, 35, 106, 41, 77,
       45, 47, 94, 38, 25, 102, 47, 53, 91, 61, 35, 109, 29, 48, 56, 10, 79,
       77, 110, 110, 71, 105, 63, 36, 114, 48, 71, 20, 34, 123, 93, 25, 92,
       115, 53, 62, 25, 94, 99, 69, 14, 60, 4, 77, 82, 119, 118, 113, 14, 49,
       43, 118, 14, 42, 45, 93, 117, 124, 62, 55, 2, 89, 89, 15, 60, 50, 116,
       20, 48, 126, 27, 122, 83, 63, 30, 100, 27, 38, 42, 16, 14, 8, 53, 90,
       71, 65, 3, 116, 93, 14, 121, 27, 26, 121, 34, 88, 113, 75, 0, 30, 12,
       65, 40, 75, 108, 46, 90, 49, 51, 97, 87, 85, 112, 45, 26, 48, 20, 64,
       69, 81, 60, 72, 80, 40, 7, 21, 62, 57, 116, 43, 120, 54, 97, 119, 28,
       81, 17, 83, 109, 90, 71, 111, 22, 64, 28, 57, 89, 71, 69, 6, 96, 27,
       127, 29, 83, 60, 65, 114, 24, 85, 92, 65, 122, 55, 10, 84, 57, 39, 116,
       86, 106, 89, 93, 2, 100, 102, 108, 0, 55, 107, 73, 123, 44, 107, 63,
       65, 55, 67, 30, 74, 113, 77, 91, 126, 77, 28, 68, 71, 50, 58, 4, 98,
       117, 54, 98, 123, 0, 32, 75, 38, 78, 47, 127, 87, 80, 127, 15, 75, 21,
       66, 13, 116, 7, 123, 92, 127, 121, 96, 67, 40, 90, 63, 72, 16, 71, 56,
       19, 96, 5, 48, 107, 65, 60, 115, 3, 92, 124, 92, 57, 3, 93, 126, 65,
       81, 63, 65, 71, 42, 105, 12, 95, 37, 84, 63, 86, 124, 94, 25, 42, 37,
       3, 16, 92, 71, 91, 112, 15, 97, 59, 100, 90, 63, 20, 62, 121, 122, 37,
       81, 29, 31, 16, 98, 21, 86, 91, 109, 7, 76, 25, 81, 53, 109, 105, 103,
       87, 11, 25, 64, 68, 14, 64, 118, 47, 99, 55, 83, 86, 59, 26, 89, 118,
       59, 19, 37, 30, 49, 96, 57, 107, 38, 41, 123, 43, 119, 66, 110, 125, 4,
       110, 41, 71, 68, 68, 8, 55, 56, 92, 18, 81, 47, 108, 10, 122, 97, 4,
       98, 88, 11, 25, 111, 115, 18, 97, 121, 8, 122, 72, 71, 103, 45, 124,
       11, 41, 54, 107, 43, 22, 121, 56, 104, 95, 23, 74, 70, 48, 28, 52, 53,
       89, 56, 40, 14, 49, 95, 59, 28, 72, 106, 59, 10, 49, 41, 44, 21, 24,
       103, 35, 35, 23, 116, 124, 113, 46, 2, 95, 11, 102, 26, 25, 66, 99, 80,
       20, 51, 12, 42, 87, 48, 90, 111, 44, 108, 29, 93, 85, 119, 11, 75, 39,
       69, 1, 35, 100, 55, 73, 101, 100, 80, 53, 2, 61, 34, 84, 67, 55, 4, 85,
       60, 115, 126, 81, 25, 51, 110, 84, 97, 68, 19, 54, 69, 5, 92, 64, 64,
       35, 34, 6, 47, 91, 36, 4, 19, 98, 98, 112, 104, 65, 91, 111, 17, 75,
       93, 90, 41, 29, 100, 93, 2, 83, 33, 36, 66, 7, 52, 85, 75, 80, 4, 4,
       99, 39, 52, 82, 86, 18, 42, 25, 55, 72, 96, 94, 28, 70, 66, 42, 33, 78,
       49, 68, 84, 38, 109, 16, 125, 120, 76, 54, 40, 67, 33, 58, 104, 122,
       17, 62, 102, 117, 51, 77, 125, 19, 9, 69, 96, 15, 75, 75, 18, 123, 39,
       79, 10, 31, 105, 66, 117, 28, 115, 94, 119, 72, 83, 4, 68, 39, 35, 91,
       90, 121, 110, 62, 88, 37, 122, 5, 54, 37, 115, 114, 56, 16, 33, 93, 29,
       15, 25, 77, 43, 70, 81, 17, 106, 35, 122, 124, 99, 52, 46, 78, 69, 45,
       33, 127, 55, 94, 102, 21, 42, 42, 47, 116, 64, 58, 58, 50, 35, 28, 72,
       114, 12, 73, 89, 8, 124, 65, 123, 122, 41, 123, 70, 82, 6, 90, 109, 75,
       95, 82, 48, 75, 60, 30, 106, 5, 110, 109, 6, 127, 21, 14, 41, 56, 15,
       45, 111, 67, 87, 73, 26, 99, 94, 82, 76, 89, 58, 84, 29, 36, 9, 29, 89,
       7, 5, 101, 70, 59, 126, 7, 10, 80, 64, 49, 60, 109, 109, 13, 63, 35,
       114, 113, 18, 40, 98, 112, 38, 45, 54, 51, 114, 34, 17, 37, 40, 52, 92,
       106, 88, 92, 114, 82, 52, 67, 106, 54, 64, 14, 64, 39, 43, 79, 35, 90,
       102, 111, 57, 16, 27, 105, 1, 108, 51, 125, 27, 54, 78, 5, 26, 109, 42,
       33, 70, 68, 34, 0, 56, 78, 57, 122, 49, 56, 69, 124, 69, 61, 93, 42,
       118, 104, 78, 109, 6, 61, 15, 90, 89, 97, 46, 33, 53, 5, 104, 10, 79,
       45, 54, 46, 31, 20, 58, 70, 63, 24, 89, 28, 10, 89, 95, 105, 34, 7, 18,
       121, 75, 60, 118, 118, 121, 107, 92, 127, 14, 28, 122, 1, 90, 11, 75,
       51, 108, 44, 61, 82, 15, 77, 57, 28, 12, 3, 18, 3, 60, 47, 11, 83, 123,
       100, 12, 77, 94, 86, 14, 98, 33, 48, 50, 19, 27, 5, 113, 107, 78, 38,
       32, 41, 67, 57, 59, 6, 88, 107, 56, 96, 40, 45, 13, 103, 26, 68, 17,
       17, 4, 122, 55, 6, 114, 45, 2, 33, 101, 89, 59, 119, 85, 56, 79, 100,
       51, 48, 115, 5, 105, 94, 127, 78, 16, 78, 54, 70, 64, 114, 27, 60, 66,
       66, 89, 56, 9, 35, 80, 127, 36, 79, 3, 92, 93, 94, 35, 0, 118, 95, 86,
       68, 117, 37, 60, 36, 74, 91, 29, 101, 27, 15, 64, 72, 104, 45, 53, 1,
       65, 107, 29, 103, 27, 40, 40, 119, 71, 44, 20, 92, 109, 31, 15, 3, 10,
       96, 81, 10, 43, 74, 21, 87, 90, 121, 120, 39, 105, 49, 2, 74, 99, 115,
       9, 29, 11, 67, 78, 19, 2, 29, 125, 23, 21, 93, 74, 91, 31, 105, 13, 67,
       50, 20, 40, 102, 49, 67, 1, 20, 107, 43, 113, 0, 103, 68, 58, 68, 28,
       120, 32, 8, 84, 17, 64, 45, 57, 72, 28, 61, 10, 104, 75, 53, 72, 14, 8,
       107, 28, 18, 96, 106, 52, 65, 72, 1, 116, 126, 115, 107, 0, 52, 5, 8,
       91, 56, 63, 120, 118, 100, 3, 32, 104, 99, 14, 26, 86, 31, 47, 6, 127,
       126, 80, 74, 126, 110, 106, 21, 98, 44, 26, 36, 58, 127, 26, 3, 31,
       124, 101, 19, 43, 106, 51, 14, 99, 108, 69, 94, 123, 117, 17, 5, 17, 9,
       66, 88, 6, 88, 80, 6, 42, 96, 16, 41, 33, 10, 61, 41, 41, 61, 93, 6,
       65, 51, 49, 47, 78, 9, 77, 54, 118, 70, 9, 95, 34, 117, 16, 94, 64,
       100, 13, 67, 9, 108, 29, 119, 97, 99, 67, 17, 61, 75, 92, 90, 84, 88,
       52, 56, 1, 49, 81, 103, 12, 97, 21, 91, 110, 47, 119, 15, 83, 16, 81,
       61, 1, 18, 52, 62, 87, 49, 119, 36, 100, 76, 60, 101, 98, 33, 119, 29,
       13, 92, 23, 115, 61, 66, 48, 15, 60, 63, 108, 125, 21, 114, 45, 31, 96,
       14, 41, 111, 28, 39, 77, 93, 10, 58, 46, 84, 119, 98, 58, 76, 49, 98,
       1, 114, 39, 40, 91, 63, 33, 59, 126, 8, 87, 53, 53, 51, 36, 27, 78, 64,
       42, 21, 84, 10, 122, 43, 9, 14, 100, 23, 25, 101, 57, 23, 97, 93, 42,
       98, 54, 113, 120, 107, 125, 70, 15, 109, 8, 84, 77, 37, 8, 48, 85, 60,
       105, 8, 112, 104, 95, 118, 123, 8, 79, 12, 17, 78, 68, 13, 74, 50, 99,
       16, 77, 91, 70, 106, 92, 46, 18, 111, 80, 101, 16, 1, 86, 46, 71, 65,
       30, 1, 95, 16, 59, 51, 87, 69, 62, 106, 55, 5, 59, 6, 60, 12, 28, 38,
       10, 88, 106, 105, 108, 77, 63, 99, 49, 10, 101, 65, 61, 65, 93, 86, 88,
       104, 126, 79, 111, 84, 70, 37, 21, 38, 38, 27, 31, 61, 121, 9, 112,
       122, 106, 33, 64, 2, 101, 28, 18, 8, 8, 75, 9, 32, 92, 127, 110, 47,
       116, 96, 38, 5, 82, 73, 116, 105, 92, 16, 82, 82, 63, 63, 57, 64, 34,
       20, 53, 76, 104, 38, 109, 39, 99, 125, 7, 70, 61, 113, 105, 11, 50, 1,
       65, 117, 110, 63, 49, 126, 122, 92, 43, 22, 33, 60, 80, 62, 14, 51, 72,
       127, 91, 53, 96, 33, 16, 23, 126, 60, 24, 93, 6, 75, 62, 127, 35, 50,
       100, 20, 12, 117, 45, 115, 113, 115, 108, 6, 5, 39, 40, 72, 125, 66,
       110, 127, 94, 63, 86, 40, 40, 121, 23, 46, 30, 112, 58, 10, 66, 79, 23,
       11, 29, 103, 125, 112, 87, 9, 109, 36, 10, 60, 23, 59, 39, 52, 28, 71,
       55, 3, 68, 92, 54, 36, 75, 93, 8, 46, 69, 111, 15, 39, 27, 12, 112, 91,
       86, 95, 88, 44, 110, 61, 28, 32, 97, 75, 127, 62, 122, 83, 114, 122,
       97, 52, 120, 40, 20, 63, 105, 85, 21, 106, 22, 40, 54, 110, 75, 2, 102,
       121, 16, 18, 115, 117, 71, 16, 5, 98, 106, 5, 100, 47, 38, 56, 7, 114,
       96, 30, 20, 90, 60, 95, 43, 43, 2, 66, 82, 76, 93, 79, 89, 110, 36,
       103, 92, 116, 112, 20, 63, 4, 83, 15, 126, 68, 6, 74, 81, 70, 94, 77,
       6, 105, 45, 97, 69, 31, 41, 17, 61, 115, 106, 79, 56, 60, 38, 126, 125,
       61, 95, 51, 66, 6, 23, 68, 113, 98, 73, 10, 115, 63, 54, 127, 81, 108,
       83, 14, 63, 57, 39, 8, 60, 44, 7, 43, 55, 100, 39, 14, 119, 120, 63,
       93, 17, 8, 37, 120, 61, 115, 31, 123, 95, 68, 73, 70, 100, 83, 13, 110,
       115, 50, 38, 28, 125, 122, 57, 124, 73, 117, 55, 56, 92, 72, 112, 0, 9,
       16, 123, 6, 33, 56, 107, 34, 38, 35, 103, 35, 73, 88, 22, 29, 54, 1,
       21, 32, 93, 52, 55, 119, 88, 98, 105, 110, 23, 118, 93, 97, 126, 32,
       16, 50, 41, 101, 82, 26, 54, 31, 121, 91, 80, 10, 25, 46, 68, 22, 114,
       65, 45, 65, 114, 85, 120, 43, 6, 38, 12, 88, 72, 93, 86, 6, 125, 124,
       103, 51, 100, 85, 61, 12, 11, 33, 87, 69, 101, 30, 104, 108, 51, 42,
       43, 46, 69, 73, 81, 120, 123, 97, 37, 63, 14, 93, 8, 112, 32, 29, 64,
       29, 87, 5, 85, 82, 108, 51, 125, 42, 116, 53, 93, 80, 29, 17, 124, 120,
       94, 29, 66, 76, 122, 82, 33, 49, 43, 49, 33, 24, 57, 79, 99, 126, 10,
       22, 5, 5, 13, 50, 124, 96, 75, 49, 125, 39, 40, 73, 97, 117, 6, 24, 23,
       119, 87, 16, 7, 76, 19, 75, 5, 105, 2, 13, 110, 12, 20, 9, 116, 40, 89,
       110, 34, 22, 43, 117, 35, 59, 24, 90, 68, 55, 118, 74, 16, 33, 104, 18,
       38, 52, 10, 119, 90, 124, 82, 59, 116, 122, 113, 91, 108, 48, 45, 0,
       48, 0, 82, 37, 85, 36, 49, 106, 39, 41, 36, 79, 81, 4, 96, 21, 4, 66,
       105, 30, 46, 53, 33, 31, 68, 0, 110, 43, 46, 0, 114, 18, 33, 56, 69,
       88, 60, 35, 23, 84, 47, 63, 127, 120, 95, 89, 57, 23, 43, 15, 87, 127,
       31, 102, 23, 21, 47, 40, 17, 20, 84, 37, 49, 123, 118, 61, 35, 103, 6,
       104, 68, 65, 22, 39, 58, 112, 109, 59, 26, 86, 70, 36, 39, 73, 112, 83,
       6, 104, 53, 47, 98, 13, 119, 5, 34, 95, 67, 11, 6, 106, 51, 110, 87, 4,
       121, 75, 38, 98, 126, 59, 116, 8, 103, 81, 17, 119, 113, 111, 123, 94,
       15, 127, 98, 74, 110, 101, 93, 91, 18, 9, 82, 73, 33, 101, 71, 46, 104,
       66, 111, 53, 91, 60, 7, 34, 92, 101, 105, 124, 73, 68, 23, 14, 47, 21,
       17, 101, 4, 39, 74, 62, 12, 91, 80, 37, 0, 76, 13, 37, 124, 9, 7, 3,
       63, 84, 42, 76, 49, 54, 92, 114, 86, 103, 6, 5, 67, 64, 15, 67, 126,
       77, 115, 108, 3, 46, 54, 70, 81, 123, 120, 4, 105, 30, 6, 72, 12, 127,
       15, 9, 21, 109, 45, 24, 74, 64, 100, 113, 96, 59, 47, 13, 86, 87, 49,
       105, 46, 83, 61, 28, 49, 52, 100, 9, 59, 16, 78, 20, 15, 82, 48, 108,
       36, 85, 112, 61, 80, 101, 33, 112, 70, 6, 122, 100, 81, 67, 8, 19, 70,
       29, 126, 2, 84, 27, 114, 16, 56, 113, 46, 113, 118, 92, 11, 115, 19, 4,
       95, 92, 5, 85, 57, 1, 40, 122, 48, 50, 99, 91, 57, 102, 13, 45, 30,
       123, 12, 57, 24, 42, 81, 51, 6, 68, 103, 116, 55, 10, 84, 20, 64, 114,
       13, 29, 101, 56, 76, 42, 49, 44, 94, 74, 29, 95, 52, 127, 61, 70, 126,
       72, 94, 40, 2, 31, 126, 6, 6, 84, 21, 62, 64, 50, 48, 20, 73, 68, 102,
       113, 126, 8, 91, 16, 69, 78, 112, 48, 36, 114, 66, 32, 6, 82, 103, 98,
       56, 2, 21, 111, 69, 64, 21, 105, 112, 31, 53, 122, 13, 65, 115, 86, 63,
       94, 65, 12, 47, 85, 93, 89, 45, 47, 63, 60, 32, 42, 106, 46, 103, 117,
       37, 71, 91, 36, 33, 43, 6, 52, 10, 54, 81, 102, 126, 5, 70, 86, 88, 1,
       75, 117, 98, 122, 92, 95, 115, 103, 33, 36, 79, 71, 107, 82, 46, 99,
       29, 23, 80, 6, 109, 25, 88, 70, 110, 87, 82, 56, 34, 119, 36, 43, 32,
       40, 99, 65, 123, 44, 99, 33, 15, 20, 80, 103, 33, 96, 121, 6, 68, 3,
       112, 63, 95, 114, 31, 69, 113, 119, 61, 6, 53, 125, 116, 22, 108, 105,
       43, 81, 81, 105, 126, 77, 98, 110, 45, 0, 106, 19, 6, 87, 61, 48, 24,
       1, 69, 119, 114, 64, 97, 80, 70, 103, 3, 24, 122, 89, 22, 90, 57, 116,
       0, 78, 71, 86, 33, 106, 2, 43, 108, 94, 69, 84, 1, 59, 114, 38, 45, 44,
       16, 13, 49, 92, 64, 127, 103, 42, 66, 73, 41, 56, 6, 127, 55, 19, 12,
       112, 76, 14, 114, 56, 49, 51, 105, 43, 33, 43, 58, 98, 46, 40, 84, 122,
       9, 77, 116, 89, 104, 53, 61, 72, 91, 56, 19, 89, 69, 87, 111, 29, 123,
       0, 7, 71, 35, 124, 58, 90, 85, 14, 1, 2, 93, 4, 124, 109, 17, 47, 107,
       100, 109, 22, 116, 100, 61, 72, 93, 20, 93, 83, 80, 109, 34, 64, 43, 9,
       103, 26, 22, 47, 75, 127, 111, 53, 0, 81, 105, 10, 109, 36, 33, 66, 28,
       57, 22, 57, 18, 12, 68, 49, 13, 110, 80, 121, 13, 29, 46, 93, 119, 34,
       10, 107, 68, 36, 63, 127, 11, 102, 104, 29, 10, 26, 10, 41, 113, 107,
       66, 120, 28, 43, 31, 80, 57, 57, 42, 22, 15, 5, 65, 98, 70, 26, 97, 67,
       16, 65, 10, 4, 2, 114, 57, 23, 119, 18, 107, 71, 114, 7, 99, 43, 29,
       115, 3, 56, 88, 112, 24, 99, 37, 99, 16, 54, 113, 2, 82, 25, 109, 111,
       60, 77, 10, 81, 17, 93, 66, 52, 93, 54, 82, 12, 43, 35, 9, 35, 62, 4,
       56, 36, 98, 6, 123, 96, 21, 88, 38, 87, 13, 42, 107, 42, 89, 22, 29,
       89, 30, 125, 31, 106, 123, 82, 81, 14, 27, 71, 5, 97, 43, 39, 85, 14,
       63, 5, 37, 73, 105, 51, 118, 126, 14, 3, 25, 83, 20, 86, 13, 47, 43,
       59, 91, 48, 80, 86, 89, 45, 5, 61, 93, 10, 103, 84, 32, 23, 52, 88, 88,
       78, 80, 48, 119, 89, 117, 24, 67, 111, 41, 94, 40, 9, 36, 64, 40, 32,
       62, 5, 18, 109, 38, 23, 114, 69, 79, 53, 0, 17, 29, 35, 105, 15, 1, 74,
       42, 68, 18, 98, 126, 4, 56, 16, 54, 126, 104, 72, 118, 82, 21, 10, 67,
       114, 25, 1, 32, 49, 89, 101, 54, 97, 9, 24, 85, 14, 3, 55, 121, 107,
       35, 37, 58, 76, 79, 47, 80, 74, 108, 21, 35, 125, 33, 111, 101, 9, 29,
       76, 84, 10, 108, 52, 8, 68, 5, 24, 92, 61, 122, 117, 22, 37, 124, 2,
       119, 101, 27, 10, 22, 77, 37, 127, 112, 104, 91, 12, 10, 50, 73, 9,
       101, 100, 28, 45, 46, 69, 107, 57, 83, 97, 126, 110, 43, 40, 2, 122,
       31, 47, 4, 91, 28, 20, 32, 86, 104, 60, 75, 64, 80, 66, 80, 57, 109,
       61, 25, 87, 13, 101, 126, 41, 65, 58, 104, 76, 61, 32, 8, 88, 67, 21,
       87, 119, 38, 125, 110, 43, 124, 9, 74, 104, 102, 53, 15, 107, 94, 113,
       63, 81, 125, 61, 111, 2, 126, 99, 31, 95, 121, 58, 72, 99, 77, 114, 13,
       32, 96, 88, 54, 120, 119, 113, 109, 11, 63, 99, 105, 69, 95, 44, 60,
       89, 35, 16, 75, 17, 105, 114, 58, 7, 12, 104, 123, 34, 0, 48, 117, 95,
       40, 109, 93, 48, 83, 73, 123, 42, 23, 46, 114, 89, 22, 95, 119, 110,
       44, 68, 100, 110, 58, 10, 7, 35, 33, 10, 78, 112, 29, 6, 82, 79, 13,
       59, 124, 73, 48, 99, 97, 61, 104, 94, 103, 33, 105, 123, 126, 46, 18,
       111, 9, 17, 27, 63, 93, 63, 127, 73, 109, 24, 125, 75, 88, 19, 56, 26,
       12, 45, 92, 127, 102, 14, 13, 107, 76, 20, 36, 5, 124, 105, 112, 91,
       60, 13, 73, 85, 91, 86, 90, 79, 4, 29, 83, 121, 63, 31, 30, 18, 62,
       115, 92, 59, 56, 26, 32, 127, 127, 100, 61, 24, 89, 35, 55, 87, 67, 11,
       60, 58, 81, 9, 107, 111, 63, 84, 29, 11, 1, 40, 85, 31, 45, 83, 25, 84,
       118, 77, 2, 66, 96, 93, 8, 95, 85, 7, 97, 28, 12, 1, 19, 52, 116, 64,
       30, 121, 76, 38, 75, 83, 55, 16, 93, 112, 13, 62, 127, 90, 11, 56, 70,
       76, 68, 29, 77, 79, 22, 52, 62, 66, 45, 106, 83, 7, 43, 59, 11, 31, 33,
       55, 109, 94, 64, 1, 13, 109, 58, 116, 124, 23, 84, 14, 74, 41, 100, 13,
       84, 26, 61, 32, 32, 110, 82, 8, 111, 56, 31, 9, 34, 121, 4, 36, 122,
       84, 18, 91, 15, 70, 92, 62, 54, 78, 113, 98, 109, 112, 17, 28, 27, 81,
       71, 36, 73, 77, 61, 31, 38, 24, 64, 113, 103, 63, 103, 105, 32, 36,
       101, 80, 124, 99, 122, 127, 73, 68, 10, 63, 127, 17, 15, 21, 118, 36,
       33, 53, 25, 4, 43, 57, 96, 127, 34, 50, 65, 36, 60, 99, 35, 74, 82, 68,
       122, 112, 111, 7, 90, 7, 95, 20, 25, 108, 118, 122, 115, 62, 120, 29,
       86, 81, 62, 63, 7, 57, 87, 90, 125, 5, 7, 22, 14, 61, 52, 79, 68, 45,
       121, 24, 54, 66, 111, 26, 29, 63, 10, 80, 93, 127, 125, 106, 125, 18,
       91, 81, 55, 87, 19, 21, 5, 98, 112, 77, 11, 43, 32, 60, 24, 69, 49, 85,
       12, 17, 64, 38, 7, 91, 49, 56, 122, 102, 35, 62, 120, 34, 92, 57, 31,
       92, 61, 124, 33, 127, 29, 52, 9, 14, 13, 50, 76, 111, 43, 103, 112, 36,
       60, 43, 35, 2, 72, 30, 84, 85, 46, 126, 112, 108, 18, 46, 81, 114, 41,
       79, 87, 125, 91, 126, 60, 60, 35, 95, 36, 117, 106, 85, 51, 98, 3, 61,
       44, 76, 66, 9, 31, 18, 106, 87, 69, 67, 64, 60, 41, 13, 34, 9, 7, 59,
       52, 71, 43, 23, 61, 34, 92, 63, 71, 8, 12, 10, 5, 86, 123, 81, 9, 83,
       126, 96, 44, 49, 64, 80, 44, 11, 46, 68, 15, 68, 52, 92, 46, 40, 18,
       126, 18, 82, 83, 71, 35, 73, 124, 94, 77, 26, 100, 124, 107, 65, 100,
       88, 96, 98, 88, 50, 111, 13, 24, 86, 45, 74, 26, 85, 105, 62, 0, 62,
       51, 113, 58, 126, 91, 94, 121, 122, 70, 63, 42, 124, 126, 124, 49, 121,
       60, 68, 54, 83, 63, 77, 119, 29, 55, 5, 98, 111, 97, 47, 44, 40, 99,
       71, 92, 51, 91, 118, 94, 65, 26, 50, 12, 72, 39, 53, 23, 37, 121, 55,
       42, 37, 117, 112, 33, 53, 17, 54, 51, 66, 41, 120, 71, 46, 72, 125, 28,
       32, 62, 19, 73, 99, 83, 79, 101, 40, 120, 9, 109, 108, 97, 102, 4, 25,
       95, 41, 35, 124, 8, 50, 36, 21, 89, 103, 0, 30, 36, 61, 87, 75, 13,
       117, 0, 66, 97, 94, 33, 79, 62, 89, 110, 94, 118, 42, 20, 112, 39, 10,
       8, 66, 54, 92, 50, 112, 22, 118, 49, 19, 24, 6, 126, 65, 38, 68, 12,
       87, 15, 3, 36, 28, 123, 73, 16, 120, 81, 84, 96, 87, 91, 123, 4, 33,
       55, 49, 49, 88, 63, 4, 45, 113, 108, 34, 94, 92, 123, 117, 63, 119, 87,
       34, 69, 49, 23, 70, 61, 51, 108, 29, 115, 16, 18, 22, 18, 26, 73, 92,
       24, 117, 45, 127, 104, 23, 0, 84, 105, 40, 32, 99, 6, 100, 3, 47, 78,
       2, 122, 75, 79, 33, 39, 4, 32, 114, 85, 13, 108, 63, 66, 42, 1, 109,
       76, 123, 68, 86, 31, 108, 123, 121, 14, 71, 22, 107, 69, 105, 59, 41,
       125, 77, 120, 60, 112, 13, 101, 74, 54, 4, 91, 64, 20, 82, 39, 55, 12,
       20, 112, 38, 67, 53, 95, 90, 39, 2, 92, 110, 51, 70, 92, 76, 79, 26,
       127, 104, 103, 65, 28, 123, 75, 61, 79, 111, 11, 29, 87, 72, 104, 63,
       1, 21, 33, 97, 17, 29, 61, 13, 112, 54, 108, 28, 58, 95, 61, 73, 90,
       61, 81, 44, 108, 23, 117, 8, 71, 65, 93, 6, 101, 121, 76, 104, 76, 60,
       3, 27, 94, 97, 45, 38, 39, 32, 77, 38, 88, 77, 59, 101, 106, 41, 29,
       73, 85, 8, 44, 55, 103, 13, 80, 126, 95, 25, 1, 42, 69, 36, 46, 10,
       109, 56, 82, 48, 100, 13, 82, 91, 61, 114, 8, 26, 73, 112, 57, 35, 10,
       94, 83, 4, 7, 98, 65, 10, 53, 85, 77, 64, 10, 77, 92, 100, 60, 11, 7,
       4, 25, 80, 65, 45, 65, 100, 29, 47, 112, 5, 124, 58, 99, 64, 14, 57,
       114, 124, 29, 31, 17, 19, 108, 127, 15, 18, 28, 127, 60, 24, 113, 85,
       101, 75, 115, 125, 17, 25, 96, 119, 119, 107, 46, 54, 121, 113, 33, 61,
       98, 88, 51, 68, 82, 12, 79, 43, 1, 86, 102, 114, 50, 1, 42, 96, 79,
       105, 51, 95, 9, 44, 95, 25, 66, 112, 60, 91, 97, 114, 109, 91, 9, 7,
       52, 66, 7, 116, 126, 76, 11, 77, 16, 127, 51, 72, 42, 79, 18, 115, 108,
       41, 115, 31, 99, 77, 118, 98, 97, 15, 115, 106, 78, 2, 113, 75, 23,
       111, 113, 55, 59, 73, 124, 25, 15, 81, 115, 29, 65, 93, 52, 11, 114,
       64, 33, 113, 7, 28, 90, 59, 117, 101, 54, 28, 21, 103, 122, 96, 79, 62,
       7, 41, 69, 42, 33, 49, 112, 27, 50, 81, 56, 79, 81, 88, 61, 43, 127,
       25, 61, 110, 27, 73, 79, 105, 66, 117, 77, 105, 107, 7, 95, 120, 111,
       59, 92, 48, 25, 45, 90, 111, 4, 65, 20, 94, 114, 126, 53, 84, 24, 1,
       31, 101, 122, 16, 84, 39, 58, 1, 104, 47, 18, 109, 37, 110, 42, 93, 89,
       26, 123, 82, 92, 94, 116, 75, 72, 40, 1, 20, 50, 30, 115, 36, 17, 12,
       78, 28, 49, 20, 16, 109, 87, 91, 91, 6, 3, 64, 100, 120, 96, 5, 17, 19,
       56, 4, 73, 49, 95, 47, 94, 40, 38, 44, 106, 23, 35, 119, 66, 0, 16, 56,
       95, 0, 77, 112, 39, 2, 84, 45, 87, 55, 112, 13, 124, 27, 68, 109, 101,
       57, 81, 16, 60, 118, 99, 40, 36, 73, 46, 7, 104, 67, 63, 1, 48, 53, 51,
       13, 105, 93, 123, 17, 10, 33, 3, 19, 75, 59, 83, 25, 80, 47, 5, 23, 25,
       22, 3, 41, 120, 110, 50, 69, 42, 88, 72, 117, 99, 121, 116, 94, 124,
       54, 54, 79, 115, 73, 109, 31, 126, 62, 46, 86, 106, 106, 25, 47, 55,
       44, 10, 46, 83, 29, 124, 40, 123, 86, 8, 11, 34, 122, 47, 8, 24, 123,
       41, 44, 90, 22, 55, 112, 20, 57, 5, 32, 3, 6, 42, 34, 87, 88, 114, 38,
       50, 102, 8, 117, 124, 122, 76, 22, 99, 23, 125, 48, 24, 11, 71, 103,
       110, 11, 104, 9, 3, 64, 67, 104, 32, 81, 125, 94, 84, 10, 45, 24, 71,
       81, 90, 90, 34, 5, 14, 104, 118, 35, 0, 1, 32, 73, 77, 43, 124, 84, 65,
       91, 99, 38, 48, 53, 18, 3, 111, 24, 97, 8, 21, 72, 18, 31, 117, 125,
       76, 93, 48, 27, 90, 7, 70, 21, 28, 71, 82, 69, 10, 97, 79, 90, 69, 125,
       65, 92, 30, 8, 82, 51, 70, 92, 75, 49, 23, 93, 50, 98, 109, 67, 23, 3,
       72, 22, 67, 125, 109, 39, 100, 4, 28, 101, 89, 111, 48, 61, 92, 11, 53,
       13, 115, 47, 34, 22, 19, 11, 98, 8, 6, 62, 91, 5, 91, 10, 101, 94, 77,
       36, 100, 69, 80, 81, 99, 29, 76, 83, 58, 85, 107, 99, 26, 107, 115, 9,
       118, 48, 50, 76, 44, 61, 38, 52, 53, 35, 59, 112, 20, 20, 32, 1, 4, 8,
       26, 78, 99, 71, 82, 8, 63, 59, 37, 37, 67, 107, 97, 121, 53, 71, 117,
       81, 32, 54, 11, 12, 62, 0, 113, 63, 11, 112, 0, 65, 49, 109, 32, 15,
       105, 36, 11, 68, 1, 101, 77, 32, 80, 11, 32, 62, 68, 123, 81, 72, 75,
       1, 13, 93, 29, 107, 55, 93, 107, 82, 79, 4, 41, 95, 35, 55, 34, 106,
       121, 88, 50, 34, 108, 24, 58, 84, 98, 33, 85, 54, 36, 110, 100, 99, 1,
       123, 41, 108, 24, 37, 14, 49, 20, 43, 21, 121, 40, 52, 55, 56, 112, 40,
       33, 13, 34, 100, 92, 35, 8, 122, 35, 80, 108, 45, 26, 70, 71, 99, 71,
       107, 84, 48, 29, 45, 77, 22, 84, 102, 42, 73, 70, 44, 8, 42, 72, 120,
       35, 38, 18, 70, 77, 24, 24, 110, 79, 4, 75, 59, 49, 20, 20, 109, 124,
       21, 14, 126, 107, 91, 125, 99, 55, 60, 88, 100, 101, 65, 26, 1, 100, 4,
       39, 47, 77, 60, 42, 121, 31, 88, 127, 38, 115, 53, 125, 76, 117, 55,
       61, 2, 84, 111, 67, 58, 27, 33, 107, 38, 111, 73, 111, 22, 33, 2, 87,
       32, 35, 118, 35, 109, 66, 95, 109, 63, 97, 6, 5, 32, 94, 66, 1, 87, 60,
       35, 43, 22, 45, 123, 102, 40, 79, 2, 12, 114, 76, 8, 122, 113, 41, 88,
       103, 124, 14, 66, 82, 27, 72, 101, 89, 49, 38, 33, 25, 13, 62, 115, 64,
       76, 25, 95, 92, 6, 75, 81, 36, 22, 117, 125, 10, 26, 23, 124, 23, 92,
       110, 66, 46, 60, 20, 105, 54, 30, 24, 119, 76, 74, 43, 111, 18, 92, 47,
       91, 9, 94, 121, 104, 69, 29, 78, 40, 59, 92, 3, 122, 30, 71, 17, 7, 27,
       67, 105, 27, 106, 23, 25, 37, 63, 58, 21, 117, 59, 76, 27, 110, 2, 15,
       126, 27, 27, 1, 109, 80, 31, 58, 66, 63, 82, 65, 84, 15, 20, 66, 76,
       60, 115, 89, 76, 109, 106, 101, 94, 56, 50, 64, 34, 11, 123, 36, 89,
       22, 47, 57, 19, 44, 24, 88, 127, 5, 40, 80, 71, 60, 63, 82, 82, 105,
       71, 75, 112, 80, 118, 86, 72, 124, 121, 117, 122, 56, 77, 3, 122, 61,
       56, 61, 88, 21, 20, 88, 83, 69, 17, 116, 95, 101, 37, 47, 124, 94, 81,
       29, 52, 26, 64, 69, 47, 20, 5, 4, 10, 93, 3, 108, 104, 53, 127, 3, 78,
       32, 62, 116, 50, 80, 122, 112, 99, 105, 47, 94, 89, 89, 126, 87, 27,
       17, 96, 124, 19, 33, 100, 40, 21, 33, 17, 96, 24, 126, 0, 110, 26, 61,
       95, 14, 26, 5, 81, 44, 96, 30, 103, 23, 50, 94, 99, 107, 30, 12, 105,
       33, 102, 87, 9, 112, 10, 52, 54, 28, 109, 62, 62, 17, 35, 98, 45, 56,
       65, 104, 85, 92, 35, 36, 44, 45, 3, 14, 97, 99, 93, 120, 7, 53, 73,
       108, 48, 111, 31, 31, 79, 98, 72, 67, 43, 50, 29, 76, 121, 2, 111, 47,
       53, 94, 116, 33, 69, 108, 109, 49, 74, 72, 29, 69, 29, 10, 123, 55, 0,
       51, 83, 16, 24, 40, 83, 111, 115, 17, 111, 96, 112, 62, 91, 99, 32, 99,
       70, 110, 114, 79, 31, 24, 44, 100, 52, 67, 53, 50, 123, 65, 121, 9, 64,
       67, 4, 45, 80, 44, 89, 0, 68, 50, 63, 80, 64, 91, 113, 7, 14, 117, 62,
       15, 62, 126, 106, 81, 46, 23, 4, 35, 85, 115, 36, 41, 84, 123, 49, 96,
       49, 9, 22, 10, 4, 97, 6, 92, 37, 77, 77, 19, 124, 11, 124, 50, 47, 122,
       18, 54, 41, 125, 22, 91, 114, 108, 94, 52, 54, 30, 20, 70, 117, 34, 1,
       37, 114, 92, 49, 4, 28, 48, 55, 112, 77, 9, 88, 47, 71, 11, 110, 24,
       51, 30, 105, 115, 66, 21, 29, 102, 78, 24, 102, 30, 36, 6, 84, 87, 109,
       105, 115, 59, 106, 35, 92, 69, 78, 76, 17, 58, 86, 103, 126, 91, 64,
       78, 13, 37, 24, 30, 1, 66, 3, 114, 29, 84, 58, 62, 122, 80, 90, 17,
       119, 68, 114, 107, 23, 12, 69, 83, 111, 22, 18, 71, 78, 31, 58, 55, 86,
       121, 108, 60, 45, 69, 4, 105, 56, 73, 30, 104, 59, 115, 47, 4, 72, 95,
       52, 111, 100, 19, 66, 52, 30, 73, 35, 41, 78, 96, 54, 61, 69, 113, 55,
       93, 24, 34, 126, 48, 17, 115, 3, 87, 118, 5, 90, 78, 52, 17, 100, 20,
       85, 102, 12, 34, 113, 127, 63, 27, 24, 97, 9, 2, 122, 66, 54, 26, 47,
       60, 105, 38, 108, 112, 32, 3, 101, 108, 70, 38, 2, 0, 105, 109, 39, 51,
       49, 4, 127, 45, 4, 7, 47, 106, 29, 113, 45, 70, 25, 3, 48, 113, 9, 15,
       99, 68, 17, 16, 51, 82, 10, 34, 23, 16, 66, 96, 50, 69, 84, 17, 31,
       114, 20, 46, 122, 105, 30, 72, 106, 1, 124, 14, 39, 73, 6, 67, 5, 75,
       61, 106, 90, 104, 93, 48, 103, 52, 58, 112, 101, 18, 103, 76, 13, 58,
       104, 116, 107, 1, 55, 73, 5, 47, 69, 112, 40, 105, 42, 19, 104, 4, 69,
       103, 104, 109, 126, 112, 4, 95, 60, 103, 15, 60, 88, 4, 40, 12, 112,
       98, 60, 17, 100, 45, 121, 39, 35, 71, 22, 44, 87, 127, 67, 84, 91, 108,
       21, 88, 120, 73, 78, 105, 60, 44, 66, 123, 10, 95, 47, 107, 108, 40,
       82, 104, 87, 29, 49, 81, 73, 39, 119, 123, 84, 119, 65, 1, 29, 18, 37,
       96, 6, 4, 95, 83, 39, 64, 110, 42, 73, 37, 92, 33, 107, 114, 15, 48,
       78, 127, 58, 92, 27, 55, 113, 8, 34, 127, 103, 12, 127, 83, 42, 36, 22,
       120, 41, 16, 11, 52, 19, 10, 73, 49, 73, 124, 127, 48, 77, 110, 62,
       120, 59, 71, 109, 127, 10, 28, 74, 97, 114, 96, 59, 33, 55, 46, 107,
       92, 54, 37, 101, 34, 107, 101, 21, 45, 125, 112, 32, 68, 114, 43, 30,
       105, 124, 97, 91, 12, 111, 34, 126, 81, 57, 105, 63, 120, 118, 24, 76,
       52, 33, 92, 25, 61, 60, 44, 49, 100, 62, 12, 31, 69, 48, 0, 113, 1, 18,
       26, 106, 8, 85, 110, 11, 6, 97, 126, 50, 18, 109, 49, 82, 103, 119,
       120, 17, 103, 110, 85, 13, 29, 100, 115, 85, 119, 106, 15, 34, 34, 71,
       77, 56, 79, 57, 22, 86, 72, 77, 25, 95, 39, 6, 28, 104, 36, 5, 116,
       100, 105, 57, 108, 35, 30, 122, 40, 127, 65, 39, 37, 105, 22, 73, 4,
       65, 98, 84, 66, 123, 38, 89, 113, 22, 116, 12, 21, 112, 97, 28, 49, 9,
       24, 122, 115, 5, 105, 9, 74, 13, 101, 68, 119, 82, 81, 67, 65, 36, 32,
       98, 64, 14, 8, 127, 85, 55, 82, 89, 54, 83, 98, 115, 116, 63, 0, 28,
       19, 67, 18, 109, 26, 0, 47, 86, 79, 15, 18, 12, 47, 7, 121, 125, 39,
       102, 113, 126, 0, 49, 28, 96, 10, 68, 36, 94, 3, 72, 93, 88, 101, 26,
       56, 24, 75, 87, 108, 45, 82, 78, 46, 62, 126, 12, 103, 44, 117, 55, 24,
       20, 13, 120, 91, 8, 98, 77, 112, 122, 13, 3, 4, 79, 15, 85, 75, 108,
       110, 38, 102, 65, 109, 110, 76, 101, 103, 69, 117, 23, 52, 3, 102, 14,
       67, 37, 37, 102, 15, 35, 8, 92, 76, 88, 121, 55, 88, 81, 66, 113, 38,
       14, 55, 124, 6, 91, 74, 98, 81, 54, 35, 49, 35, 33, 41, 5, 64, 28, 81,
       122, 51, 24, 56, 51, 123, 40, 70, 33, 59, 52, 105, 112, 118, 118, 41,
       26, 66, 49, 102, 92, 84, 66, 97, 100, 52, 2, 94, 13, 101, 120, 78, 92,
       90, 46, 107, 85, 13, 18, 49, 34, 0, 71, 37, 83, 77, 91, 36, 54, 88, 21,
       87, 75, 9, 41, 100, 107, 80, 2, 28, 117, 36, 90, 51, 21, 42, 122, 107,
       46, 124, 67, 28, 56, 46, 6, 18, 12, 51, 98, 11, 82, 10, 1, 25, 68, 77,
       18, 102, 80, 126, 55, 28, 60, 19, 30, 14, 57, 37, 101, 13, 25, 82, 80,
       97, 87, 52, 43, 70, 45, 69, 71, 61, 85, 126, 19, 106, 39, 46, 34, 0,
       42, 65, 57, 122, 46, 1, 100, 67, 56, 55, 90, 29, 88, 109, 121, 4, 87,
       124, 127, 96, 60, 89, 8, 27, 17, 16, 112, 106, 4, 115, 67, 53, 119, 70,
       60, 117, 50, 64, 51, 97, 109, 116, 100, 37, 31, 28, 49, 103, 78, 45,
       66, 14, 111, 88, 98, 83, 38, 12, 71, 49, 0, 38, 93, 92, 37, 102, 27,
       64, 7, 23, 102, 41, 52, 119, 71, 19, 53, 50, 46, 72, 80, 57, 21, 43,
       36, 127, 48, 57, 43, 54, 108, 99, 111, 112, 93, 22, 88, 4, 1, 121, 57,
       118, 6, 65, 102, 100, 117, 103, 71, 95, 86, 123, 109, 118, 123, 83, 64,
       21, 44, 43, 15, 124, 57, 82, 74, 86, 19, 111, 5, 88, 84, 64, 123, 7,
       78, 45, 116, 119, 84, 119, 25, 6, 96, 75, 12, 50, 18, 40, 110, 8, 63,
       38, 29, 122, 85, 119, 103, 85, 99, 102, 115, 122, 76, 43, 13, 91, 73,
       97, 81, 91, 102, 81, 102, 24, 29, 112, 19, 42, 21, 10, 9, 94, 92, 93,
       12, 29, 58, 116, 80, 47, 8, 115, 112, 19, 38, 58, 59, 10, 77, 19, 88,
       33, 32, 2, 40, 71, 45, 41, 2, 83, 100, 16, 33, 9, 55, 21, 51, 123, 90,
       116, 38, 1, 6, 91, 33, 41, 23, 46, 0, 28, 121, 106, 101, 40, 108, 23,
       53, 105, 57, 55, 70, 27, 95, 59, 114, 106, 82, 108, 58, 102, 70, 122,
       63, 123, 115, 69, 77, 25, 2, 1, 98, 26, 0, 7, 8, 54, 64, 42, 88, 113,
       35, 113, 120, 28, 0, 104, 30, 19, 91, 5, 17, 83, 55, 24, 84, 122, 78,
       117, 57, 68, 0, 93, 21, 11, 34, 1, 127, 32, 45, 23, 9, 120, 114, 51,
       77, 102, 62, 57, 39, 55, 107, 15, 18, 74, 16, 16, 13, 110, 120, 6, 94,
       109, 52, 47, 5, 72, 102, 79, 125, 97, 33, 51, 33, 81, 123, 92, 87, 83,
       92, 8, 105, 46, 15, 16, 80, 101, 127, 47, 55, 39, 64, 69, 74, 49, 45,
       49, 123, 45, 124, 87, 14, 9, 53, 11, 86, 107, 16, 93, 97, 20, 43, 17,
       64, 35, 68, 98, 116, 127, 96, 91, 60, 48, 111, 6, 64, 7, 10, 113, 121,
       30, 31, 45, 71, 30, 19, 87, 85, 65, 6, 102, 93, 76, 59, 59, 64, 99, 99,
       67, 72, 72, 6, 115, 1, 123, 115, 52, 67, 122, 104, 95, 39, 124, 92, 65,
       30, 7, 20, 90, 44, 35, 11, 38, 76, 43, 49, 109, 73, 26, 99, 8, 114,
       103, 49, 127, 86, 51, 93, 15, 34, 36, 50, 112, 100, 11, 83, 93, 90, 38,
       11, 38, 77, 88, 68, 40, 25, 42, 84, 87, 98, 115, 67, 12, 117, 60, 86,
       11, 120, 41, 80, 52, 24, 101, 17, 116, 37, 124, 98, 29, 25, 127, 99,
       67, 22, 104, 127, 65, 23, 116, 49, 88, 20, 101, 122, 7, 28, 105, 11,
       95, 102, 48, 42, 44, 20, 103, 98, 83, 45, 37, 26, 91, 50, 55, 46, 23,
       60, 104, 117, 106, 36, 57, 29, 72, 69, 12, 21, 23, 72, 19, 25, 75, 104,
       6, 83, 16, 54, 3, 84, 61, 124, 34, 3, 94, 51, 71, 73, 63, 40, 52, 71,
       119, 105, 87, 36, 124, 72, 111, 48, 5, 103, 7, 127, 70, 67, 117, 102,
       30, 9, 36, 43, 70, 108, 44, 70, 89, 104, 77, 59, 87, 13, 104, 95, 28,
       115, 68, 38, 103, 81, 53, 39, 20, 99, 14, 84, 12, 20, 7, 99, 46, 115,
       58, 100, 26, 82, 44, 27, 18, 1, 96, 15, 104, 103, 96, 116, 49, 26, 97,
       107, 122, 74, 116, 64, 75, 75, 92, 72, 14, 86, 82, 86, 0, 106, 115, 16,
       52, 47, 125, 42, 122, 85, 121, 83, 23, 91, 64, 72, 75, 4, 22, 57, 9,
       97, 35, 123, 77, 3, 62, 54, 5, 19, 61, 7, 50, 52, 64, 42, 17, 38, 99,
       73, 113, 66, 49, 52, 25, 90, 21, 28, 66, 110, 114, 55, 83, 4, 65, 104,
       65, 17, 69, 81, 27, 11, 116, 17, 105, 101, 72, 40, 23, 32, 8, 29, 105,
       84, 66, 12, 68, 124, 122, 25, 70, 9, 17, 92, 95, 58, 28, 67, 8, 68,
       104, 118, 112, 67, 119, 86, 124, 52, 119, 32, 94, 87, 90, 87, 93, 74,
       68, 105, 103, 16, 116, 82, 79, 101, 68, 54, 86, 17, 21, 86, 45, 64, 63,
       34, 29, 91, 107, 105, 45, 7, 127, 70, 87, 125, 51, 96, 50, 112, 105,
       113, 42, 72, 66, 87, 80, 112, 126, 11, 119, 84, 127, 67, 105, 114, 19,
       39, 68, 17, 24, 64, 63, 39, 83, 122, 120, 119, 101, 121, 61, 59, 61,
       56, 124, 102, 33, 35, 78, 94, 101, 30, 61, 99, 95, 29, 16, 59, 11, 114,
       100, 33, 106, 123, 20, 36, 37, 45, 26, 41, 109, 96, 99, 48, 81, 49, 19,
       41, 54, 104, 77, 112, 36, 82, 126, 104, 113, 93, 91, 108, 102, 16, 37,
       122, 105, 76, 89, 71, 24, 8, 5, 41, 1, 0, 61, 8, 81, 63, 24, 69, 123,
       69, 114, 32, 30, 54, 52, 125, 73, 46, 119, 61, 62, 23, 112, 110, 30,
       35, 35, 89, 64, 54, 94, 18, 66, 126, 111, 9, 94, 27, 48, 56, 52, 51,
       124, 45, 96, 77, 56, 16, 42, 97, 36, 81, 127, 25, 67, 36, 110, 75, 74,
       79, 114, 16, 41, 62, 15, 100, 97, 70, 70, 92, 9, 6, 43, 119, 90, 65,
       30, 34, 100, 114, 59, 46, 14, 116, 36, 27, 43, 3, 110, 110, 125, 127,
       78, 102, 47, 70, 61, 47, 41, 40, 95, 3, 107, 1, 58, 28, 26, 62, 93,
       106, 47, 98, 111, 16, 46, 2, 96, 13, 6, 121, 13, 45, 104, 19, 18, 51,
       15, 13, 35, 51, 40, 112, 17, 4, 4, 71, 48, 64, 99, 98, 60, 32, 105, 24,
       97, 110, 1, 81, 115, 51, 75, 89, 15, 104, 126, 37, 18, 98, 81, 59, 58,
       45, 47, 91, 50, 95, 69, 106, 100, 34, 21, 91, 103, 75, 44, 27, 104,
       109, 111, 14, 34, 40, 93, 31, 44, 74, 110, 123, 46, 127, 123, 10, 115,
       7, 79, 100, 41, 36, 33, 72, 32, 107, 59, 87, 57, 18, 54, 48, 83, 88,
       33, 127, 99, 46, 19, 42, 88, 105, 72, 5, 36, 94, 4, 76, 10, 69, 115,
       58, 83, 85, 82, 12, 39, 119, 10, 36, 38, 9, 62, 124, 97, 2, 120, 117,
       33, 35, 116, 120, 125, 52, 43, 91, 48, 70, 18, 43, 59, 65, 32, 5, 48,
       11, 33, 44, 122, 63, 56, 127, 52, 120, 0, 8, 42, 113, 45, 11, 22, 67,
       47, 31, 125, 25, 91, 111, 95, 76, 85, 59, 42, 44, 82, 52, 124, 47, 96,
       21, 96, 74, 33, 86, 127, 56, 84, 59, 101, 85, 38, 111, 1, 110, 81, 114,
       46, 82, 17, 92, 6, 2, 82, 72, 105, 76, 84, 120, 56, 1, 69, 108, 114,
       111, 89, 78, 88, 95, 18, 79, 20, 127, 106, 49, 103, 53, 71, 100, 78,
       126, 106, 69, 44, 34, 81, 80, 105, 121, 80, 78, 31, 46, 39, 71, 109,
       20, 98, 92, 35, 73, 32, 32, 15, 124, 8, 60, 37, 31, 126, 33, 36, 42,
       31, 51, 101, 122, 113, 50, 112, 60, 75, 82, 91, 66, 7, 101, 72, 35, 91,
       56, 9, 30, 1, 102, 63, 81, 68, 6, 2, 112, 89, 38, 106, 91, 40, 110, 61,
       44, 90, 46, 33, 78, 62, 5, 111, 73, 57, 76, 75, 80, 3, 84, 79, 10, 107,
       121, 57, 33, 93, 109, 44, 42, 14, 9, 75, 29, 100, 31, 102, 127, 25,
       115, 62, 2, 18, 93, 37, 74, 86, 49, 57, 110, 75, 28, 105, 79, 34, 9,
       102, 44, 7, 110, 33, 21, 13, 73, 102, 54, 39, 32, 85, 120, 12, 1, 115,
       54, 41, 29, 124, 5, 62, 69, 115, 105, 54, 1, 8, 104, 106, 56, 109, 19,
       44, 84, 29, 122, 105, 16, 54, 120, 115, 116, 102, 120, 14, 65, 32, 99,
       31, 111, 63, 111, 55, 29, 52, 56, 100, 70, 52, 84, 24, 47, 40, 0, 35,
       124, 54, 49, 19, 89, 44, 29, 116, 6, 82, 124, 3, 111, 55, 120, 109, 43,
       62, 77, 80, 36, 119, 103, 31, 6, 96, 70, 17, 9, 6, 118, 52, 87, 45,
       120, 45, 34, 31, 51, 86, 37, 12, 44, 71, 49, 86, 59, 120, 16, 99, 94,
       0, 25, 32, 111, 37, 71, 127, 62, 94, 118, 58, 23, 121, 61, 35, 54, 79,
       40, 126, 105, 44, 104, 80, 116, 62, 88, 42, 48, 75, 79, 125, 71, 95,
       117, 12, 106, 51, 69, 80, 49, 13, 76, 32, 0, 105, 2, 12, 99, 8, 56, 61,
       39, 32, 60, 60, 45, 53, 23, 49, 95, 119, 54, 66, 85, 3, 99, 18, 114,
       111, 4, 28, 126, 108, 78, 89, 77, 77, 91, 29, 57, 125, 44, 11, 127, 23,
       70, 49, 79, 16, 50, 19, 83, 58, 46, 2, 70, 19, 9, 11, 43, 121, 2, 90,
       5, 40, 16, 39, 4, 18, 6, 39, 26, 100, 51, 23, 117, 124, 14, 77, 83, 84,
       91, 5, 22, 69, 64, 20, 57, 72, 88, 92, 62, 114, 74, 6, 4, 30, 30, 90,
       17, 35, 82, 21, 108, 55, 85, 48, 4, 100, 3, 71, 84, 114, 18, 9, 19, 30,
       30, 29, 2, 110, 51, 23, 1, 104, 97, 2, 1, 99, 83, 8, 123, 115, 110, 11,
       18, 94, 105, 69, 70, 96, 82, 114, 100, 23, 42, 6, 122, 101, 115, 14,
       31, 105, 105, 67, 109, 84, 30, 102, 115, 36, 122, 42, 120, 69, 28, 103,
       45, 38, 35, 113, 77, 115, 126, 82, 119, 80, 62, 66, 9, 90, 5, 90, 102,
       72, 5, 120, 98, 40, 47, 127, 28, 106, 13, 86, 22, 79, 111, 107, 77,
       125, 31, 91, 120, 29, 24, 47, 61, 32, 108, 123, 54, 47, 124, 99, 62,
       103, 50, 87, 2, 104, 107, 69, 106, 99, 36, 26, 83, 53, 121, 109, 21,
       76, 34, 80, 17, 92, 72, 31, 14, 61, 78, 45, 75, 87, 70, 75, 35, 41, 56,
       1, 32, 83, 14, 84, 32, 61, 88, 99, 55, 23, 79, 66, 105, 57, 58, 81, 31,
       80, 9, 49, 45, 110, 0, 19, 77, 112, 98, 37, 34, 83, 126, 8, 38, 110,
       77, 64, 89, 36, 21, 4, 92, 51, 19, 35, 96, 26, 49, 18, 102, 69, 52, 53,
       6, 126, 110, 115, 90, 37, 99, 76, 76, 109, 107, 93, 127, 61, 100, 48,
       70, 14, 18, 51, 22, 88, 73, 17, 11, 24, 90, 91, 42, 108, 2, 117, 110,
       119, 79, 77, 19, 17, 95, 31, 0, 96, 77, 85, 97, 5, 98, 25, 72, 120,
       107, 86, 77, 117, 24, 55, 62, 97, 72, 83, 109, 5, 115, 117, 34, 37, 23,
       107, 19, 23, 122, 5, 126, 117, 10, 2, 77, 40, 55, 62, 106, 88, 50, 110,
       115, 83, 15, 56, 99, 93, 89, 124, 66, 77, 121, 40, 106, 27, 9, 62, 83,
       62, 25, 121, 90, 67, 44, 82, 46, 111, 75, 46, 0, 124, 30, 79, 91, 30,
       91, 86, 32, 2, 37, 36, 49, 115, 79, 71, 59, 80, 70, 5, 80, 35, 97, 11,
       114, 108, 46, 87, 11, 82, 66, 37, 124, 120, 123, 67, 10, 105, 82, 56,
       35, 42, 125, 44, 13, 14, 90, 82, 38, 117, 14, 84, 37, 103, 2, 91, 31,
       5, 6, 6, 120, 116, 68, 3, 110, 68, 83, 89, 31, 53, 82, 82, 13, 13, 4,
       39, 70, 31, 44, 12, 109, 118, 37, 71, 105, 41, 28, 31, 30, 89, 0, 41,
       15, 10, 42, 15, 105, 88, 103, 120, 48, 41, 38, 84, 97, 96, 85, 113, 28,
       49, 36, 11, 26, 81, 13, 122, 107, 83, 29, 17, 111, 99, 112, 91, 55, 60,
       42, 88, 19, 113, 29, 11, 1, 45, 51, 36, 2, 98, 22, 100, 102, 34, 70,
       31, 19, 123, 10, 104, 65, 78, 92, 90, 43, 29, 46, 104, 89, 69, 107,
       125, 29, 85, 38, 65, 1, 53, 123, 111, 42, 71, 97, 37, 31, 56, 39, 94,
       105, 124, 126, 89, 57, 55, 83, 42, 92, 29, 11, 90, 63, 86, 116, 23, 10,
       12, 7, 71, 61, 119, 88, 82, 52, 28, 61, 47, 11, 45, 96, 81, 67, 23,
       117, 2, 21, 5, 60, 50, 34, 105, 10, 81, 116, 55, 108, 107, 22, 18, 44,
       12, 26, 72, 109, 96, 67, 60, 21, 90, 36, 117, 73, 5, 82, 36, 56, 118,
       124, 93, 124, 45, 28, 108, 105, 73, 76, 5, 93, 33, 38, 28, 19, 34, 53,
       98, 115, 11, 43, 11, 125, 46, 61, 64, 68, 98, 2, 48, 111, 107, 83, 17,
       75, 71, 44, 20, 12, 1, 58, 18, 26, 54, 13, 97, 113, 107, 11, 11, 51,
       71, 97, 111, 82, 99, 23, 12, 13, 32, 92, 80, 115, 115, 11, 59, 11, 66,
       0, 66, 39, 113, 21, 32, 93, 46, 50, 51, 37, 38, 58, 42, 7, 98, 90, 81,
       23, 114, 2, 67, 50, 39, 122, 65, 75, 57, 40, 8, 39, 119, 114, 107, 77,
       42, 127, 38, 39, 105, 84, 11, 102, 89, 6, 24, 124, 77, 83, 4, 84, 84,
       116, 46, 107, 47, 21, 103, 14, 50, 85, 92, 49, 7, 82, 104, 123, 14, 99,
       11, 44, 90, 97, 69, 69, 92, 94, 86, 18, 92, 91, 13, 34, 65, 82, 127,
       116, 115, 64, 80, 64, 87, 92, 31, 82, 113, 90, 64, 78, 4, 3, 75, 76,
       24, 38, 18, 4, 106, 79, 75, 45, 24, 118, 116, 53, 40, 113, 40, 60, 39,
       2, 91, 127, 88, 114, 102, 45, 116, 33, 126, 60, 60, 15, 88, 32, 72, 57,
       33, 115, 88, 127, 111, 117, 38, 77, 123, 86, 108, 36, 20, 38, 24, 65,
       25, 95, 91, 10, 12, 1, 30, 31, 23, 88, 19, 127, 46, 58, 126, 77, 70,
       17, 124, 119, 51, 97, 67, 122, 98, 34, 36, 22, 60, 45, 86, 125, 70, 16,
       78, 90, 77, 113, 119, 58, 27, 112, 89, 60, 50, 4, 4, 69, 5, 14, 26, 32,
       122, 124, 71, 14, 31, 38, 42, 3, 58, 15, 37, 67, 39, 127, 64, 18, 38,
       109, 53, 38, 4, 112, 3, 114, 0, 39, 65, 99, 74, 15, 45, 63, 41, 10, 64,
       4, 74, 63, 80, 67, 80, 85, 2, 73, 52, 89, 31, 31, 92, 75, 27, 38, 105,
       39, 79, 6, 90, 71, 18, 104, 31, 82, 104, 97, 40, 123, 15, 18, 26, 100,
       85, 86, 4, 120, 65, 26, 2, 98, 22, 78, 47, 27, 48, 109, 6, 112, 31, 37,
       111, 38, 87, 62, 63, 75, 37, 87, 25, 32, 103, 40, 3, 41, 124, 4, 1,
       125, 59, 97, 58, 64, 121, 82, 58, 52, 46, 52, 3, 66, 108, 117, 65, 6,
       62, 104, 73, 117, 53, 107, 91, 7, 90, 56, 53, 45, 96, 24, 114, 116, 93,
       68, 108, 94, 7, 24, 16, 100, 120, 91, 25>>)
    @@
    (99 :> <<
       51, 48, 25, 76, 22, 29, 31, 17, 97, 11, 32, 93, 49, 67, 87, 89, 68, 11,
       120, 79, 62, 25, 53, 92, 78, 75, 27, 101, 115, 100, 47, 105, 49, 110,
       87, 27, 19, 59, 84, 22, 108, 72, 43, 10, 121, 91, 67, 86, 99, 11, 60,
       40, 51, 5, 34, 71, 0, 54, 26, 46, 126, 119, 68, 10, 59, 66, 115, 25,
       77, 59, 125, 6, 45, 16, 27, 121, 117, 91, 20, 95, 101, 56, 76, 118,
       125, 22, 120, 64, 84, 22, 4, 14, 2, 21, 60, 87, 104, 53, 10, 119, 54,
       80, 11, 18, 39, 79, 0, 48, 42, 17, 66, 51, 25, 115, 100, 124, 7, 81,
       27, 56, 32, 69, 51, 105, 97, 16, 45, 120, 88, 60, 118, 7, 16, 94, 110,
       91, 76, 99, 95, 19, 77, 120, 52, 15, 12, 15, 18, 37, 22, 126, 22, 52,
       18, 118, 26, 112, 71, 40, 98, 63, 102, 29, 108, 32, 15, 109, 105, 46,
       23, 86, 9, 64, 36, 1, 74, 106, 6, 43, 27, 48, 51, 43, 105, 103, 51, 49,
       53, 104, 47, 68, 11, 23, 112, 4, 118, 47, 92, 109, 51, 98, 56, 29, 39,
       109, 83, 28, 83, 92, 39, 13, 111, 88, 92, 40, 27, 97, 103, 91, 86, 91,
       31, 49, 37, 56, 96, 122, 10, 112, 56, 53, 123, 116, 32, 8, 64, 37, 116,
       87, 111, 41, 100, 61, 68, 16, 119, 114, 32, 55, 112, 37, 52, 123, 84,
       105, 78, 20, 36, 48, 86, 86, 77, 110, 126, 79, 85, 91, 56, 24, 48, 43,
       113, 25, 44, 0, 85, 45, 88, 37, 123, 108, 24, 114, 85, 85, 21, 101, 81,
       33, 84, 53, 95, 96, 110, 90, 29, 52, 110, 110, 44, 84, 51, 0, 14, 64,
       68, 25, 0, 66, 39, 121, 86, 125, 95, 126, 21, 65, 100, 103, 56, 119,
       26, 33, 95, 108, 94, 53, 59, 71, 67, 80, 79, 98, 80, 106, 97, 77, 98,
       36, 25, 94, 2, 127, 13, 103, 39, 9, 74, 4, 123, 7, 53, 38, 47, 124, 71,
       80, 121, 90, 75, 73, 37, 24, 96, 12, 126, 110, 101, 50, 51, 101, 22,
       33, 58, 42, 16, 112, 16, 115, 57, 111, 108, 88, 89, 49, 53, 71, 122,
       91, 22, 46, 32, 26, 35, 59, 73, 108, 113, 89, 48, 23, 105, 116, 119,
       127, 61, 73, 114, 80, 113, 117, 60, 85, 21, 125, 9, 68, 30, 127, 58,
       66, 1, 14, 42, 101, 63, 9, 42, 83, 93, 0, 72, 87, 68, 35, 81, 1, 74,
       40, 52, 33, 21, 17, 75, 117, 6, 50, 4, 6, 43, 65, 29, 71, 96, 37, 20,
       107, 56, 7, 89, 99, 53, 29, 103, 24, 14, 62, 21, 34, 35, 84, 46, 9, 71,
       117, 25, 99, 71, 22, 89, 45, 83, 122, 104, 68, 10, 95, 86, 14, 92, 16,
       105, 17, 19, 69, 11, 4, 97, 65, 82, 48, 21, 45, 111, 100, 91, 29, 78,
       77, 97, 123, 78, 20, 43, 98, 6, 114, 43, 103, 80, 55, 24, 39, 22, 94,
       14, 18, 63, 82, 123, 66, 93, 119, 1, 29, 48, 117, 87, 101, 12, 100,
       101, 126, 30, 72, 56, 93, 101, 77, 111, 113, 10, 112, 104, 20, 112,
       113, 107, 21, 99, 56, 47, 32, 40, 75, 5, 74, 50, 2, 38, 121, 20, 16,
       120, 1, 112, 36, 103, 71, 37, 37, 15, 63, 54, 102, 9, 5, 45, 20, 77,
       87, 40, 108, 42, 84, 41, 103, 106, 123, 4, 48, 104, 34, 78, 29, 70, 19,
       88, 86, 2, 97, 110, 120, 36, 94, 51, 53, 65, 91, 115, 99, 29, 22, 67,
       52, 126, 6, 27, 30, 82, 33, 20, 107, 72, 12, 55, 0, 72, 120, 3, 107,
       25, 16, 115, 122, 23, 80, 38, 7, 126, 112, 32, 23, 74, 97, 55, 19, 0,
       119, 82, 4, 64, 50, 119, 126, 125, 57, 9, 21, 75, 29, 43, 55, 16, 61,
       117, 78, 11, 47, 64, 20, 29, 93, 73, 62, 26, 91, 109, 12, 55, 78, 25,
       115, 102, 22, 17, 60, 94, 114, 31, 22, 107, 87, 32, 21, 83, 66, 86,
       102, 64, 117, 111, 108, 69, 9, 30, 30, 67, 29, 87, 90, 53, 50, 67, 71,
       9, 30, 32, 41, 98, 72, 42, 63, 24, 12, 101, 80, 3, 120, 4, 55, 7, 40,
       24, 118, 6, 84, 37, 23, 34, 115, 118, 85, 32, 1, 73, 67, 37, 25, 92,
       46, 14, 20, 44, 49, 18, 89, 39, 67, 33, 25, 57, 7, 120, 122, 3, 45, 29,
       18, 77, 10, 106, 110, 48, 2, 45, 120, 40, 113, 48, 31, 68, 19, 99, 9,
       2, 3, 22, 27, 28, 43, 79, 32, 97, 120, 9, 82, 0, 55, 14, 84, 55, 10,
       88, 108, 124, 93, 47, 63, 54, 71, 112, 48, 98, 71, 115, 82, 33, 41, 91,
       44, 103, 14, 34, 67, 31, 8, 119, 4, 28, 34, 41, 79, 13, 34, 112, 39,
       79, 79, 31, 27, 56, 85, 56, 66, 2, 77, 95, 33, 9, 99, 49, 15, 94, 2,
       36, 63, 97, 120, 115, 103, 90, 56, 54, 101, 118, 96, 41, 65, 127, 30,
       77, 88, 68, 118, 111, 110, 13, 117, 36, 50, 99, 26, 8, 75, 118, 35, 58,
       95, 62, 43, 127, 76, 10, 89, 2, 6, 72, 10, 81, 16, 110, 52, 24, 54,
       113, 84, 84, 75, 74, 2, 2, 15, 102, 41, 27, 26, 85, 81, 127, 13, 1,
       127, 55, 106, 120, 112, 36, 23, 107, 17, 104, 99, 88, 36, 127, 22, 90,
       53, 13, 39, 107, 23, 96, 53, 49, 80, 12, 9, 34, 121, 67, 38, 32, 108,
       126, 93, 20, 96, 35, 93, 15, 4, 95, 77, 106, 8, 32, 60, 50, 16, 113,
       37, 76, 61, 27, 108, 127, 110, 98, 64, 39, 106, 57, 32, 64, 32, 81, 23,
       58, 36, 19, 24, 42, 65, 16, 102, 64, 29, 78, 45, 77, 66, 9, 29, 71, 55,
       100, 18, 73, 0, 43, 92, 100, 93, 51, 74, 101, 10, 1, 54, 11, 54, 58,
       13, 10, 0, 24, 111, 119, 11, 99, 30, 38, 24, 14, 18, 93, 33, 90, 39,
       22, 105, 71, 86, 82, 24, 11, 78, 14, 41, 3, 123, 107, 27, 38, 51, 42,
       64, 5, 56, 83, 123, 32, 61, 69, 78, 44, 27, 44, 16, 5, 89, 41, 89, 116,
       70, 120, 86, 116, 29, 108, 26, 103, 102, 80, 66, 77, 54, 91, 60, 122,
       20, 77, 44, 71, 22, 93, 66, 108, 102, 68, 39, 2, 2, 77, 75, 44, 19, 16,
       55, 5, 8, 68, 40, 122, 86, 71, 37, 106, 46, 22, 70, 42, 88, 122, 98,
       88, 12, 93, 70, 37, 4, 85, 116, 43, 54, 25, 81, 20, 5, 22, 80, 11, 60,
       50, 54, 111, 69, 69, 48, 47, 75, 82, 106, 118, 48, 33, 13, 117, 26,
       125, 99, 45, 17, 8, 33, 87, 12, 117, 0, 47, 49, 40, 75, 30, 75, 15, 77,
       85, 125, 37, 127, 119, 35, 52, 114, 16, 17, 85, 113, 125, 107, 16, 36,
       124, 89, 84, 100, 98, 109, 121, 3, 70, 65, 68, 33, 18, 31, 52, 67, 70,
       16, 33, 38, 55, 95, 49, 11, 107, 123, 44, 3, 114, 62, 29, 61, 83, 8,
       63, 112, 38, 30, 99, 64, 126, 4, 16, 58, 103, 101, 8, 118, 45, 71, 122,
       16, 123, 82, 118, 126, 45, 99, 94, 68, 125, 5, 8, 1, 106, 27, 92, 94,
       119, 1, 57, 25, 82, 67, 97, 58, 63, 81, 91, 0, 27, 93, 5, 77, 28, 19,
       126, 81, 55, 23, 113, 16, 124, 110, 117, 103, 70, 58, 36, 106, 77, 2,
       98, 106, 92, 104, 4, 38, 7, 80, 4, 87, 31, 72, 50, 108, 47, 120, 97,
       63, 97, 17, 36, 73, 44, 89, 114, 19, 88, 117, 4, 100, 42, 73, 105, 47,
       68, 107, 25, 85, 53, 122, 86, 33, 22, 65, 32, 61, 107, 10, 49, 90, 52,
       92, 126, 33, 122, 77, 38, 61, 0, 71, 22, 98, 124, 3, 89, 32, 29, 22,
       115, 86, 112, 122, 91, 107, 2, 20, 67, 110, 28, 38, 32, 41, 50, 45, 51,
       20, 113, 33, 47, 100, 21, 0, 19, 70, 59, 59, 35, 94, 107, 61, 80, 40,
       93, 80, 22, 41, 72, 18, 88, 78, 6, 64, 51, 71, 85, 75, 19, 101, 122,
       59, 27, 64, 15, 101, 88, 50, 126, 42, 98, 54, 68, 40, 42, 125, 27, 90,
       8, 11, 28, 124, 80, 97, 31, 101, 126, 49, 20, 124, 31, 91, 52, 122,
       122, 29, 43, 10, 23, 7, 92, 7, 11, 80, 60, 48, 27, 93, 124, 33, 56, 43,
       64, 0, 122, 23, 83, 71, 127, 81, 54, 76, 111, 82, 55, 40, 35, 94, 122,
       21, 79, 118, 18, 61, 72, 47, 88, 107, 17, 122, 61, 126, 56, 59, 23, 58,
       87, 66, 62, 76, 76, 38, 68, 57, 78, 59, 99, 12, 61, 4, 123, 117, 115,
       86, 58, 24, 15, 44, 62, 1, 48, 55, 113, 121, 40, 106, 7, 93, 25, 16,
       112, 100, 15, 119, 116, 70, 54, 121, 69, 119, 96, 126, 111, 0, 14, 16,
       75, 95, 24, 17, 122, 28, 98, 98, 32, 2, 44, 90, 124, 7, 122, 5, 98, 25,
       4, 24, 28, 120, 77, 127, 26, 27, 66, 96, 0, 23, 59, 33, 60, 45, 106,
       46, 44, 117, 115, 43, 31, 37, 2, 82, 57, 13, 21, 74, 122, 5, 105, 111,
       119, 112, 27, 102, 111, 51, 117, 102, 36, 98, 104, 107, 47, 43, 23, 90,
       86, 60, 42, 83, 38, 100, 82, 61, 82, 63, 1, 60, 3, 32, 68, 77, 11, 42,
       13, 125, 119, 3, 121, 54, 91, 118, 118, 47, 88, 116, 118, 90, 0, 22,
       47, 45, 46, 75, 43, 86, 34, 122, 40, 117, 95, 114, 121, 119, 118, 33,
       49, 21, 77, 105, 29, 85, 39, 106, 116, 123, 68, 10, 11, 85, 61, 9, 100,
       10, 87, 25, 14, 44, 49, 110, 41, 125, 28, 109, 31, 6, 107, 16, 70, 32,
       102, 71, 50, 21, 107, 83, 0, 111, 43, 40, 24, 48, 34, 63, 94, 101, 22,
       21, 112, 90, 74, 100, 112, 85, 2, 84, 7, 19, 4, 39, 126, 45, 60, 18, 7,
       17, 36, 83, 45, 74, 33, 31, 40, 118, 30, 7, 31, 32, 55, 119, 14, 105,
       76, 10, 103, 71, 22, 0, 81, 75, 87, 24, 40, 62, 49, 46, 17, 127, 78,
       107, 125, 111, 99, 29, 27, 119, 54, 104, 65, 58, 35, 53, 123, 110, 112,
       25, 57, 120, 29, 113, 96, 36, 66, 4, 91, 27, 111, 43, 124, 59, 100, 94,
       26, 12, 70, 90, 91, 4, 22, 4, 126, 25, 34, 110, 108, 55, 1, 9, 11, 21,
       2, 31, 11, 15, 9, 8, 10, 2, 92, 110, 117, 34, 102, 111, 104, 47, 99,
       47, 22, 56, 49, 76, 6, 54, 23, 60, 25, 65, 59, 41, 118, 9, 45, 22, 88,
       39, 84, 105, 39, 76, 5, 81, 27, 85, 25, 5, 65, 70, 40, 95, 83, 30, 78,
       59, 14, 34, 110, 70, 53, 95, 27, 15, 4, 20, 61, 102, 15, 101, 96, 23,
       25, 16, 21, 80, 54, 107, 9, 75, 116, 121, 109, 33, 10, 100, 30, 26,
       106, 66, 98, 118, 68, 2, 86, 78, 56, 86, 77, 58, 79, 34, 95, 73, 124,
       32, 66, 56, 16, 71, 98, 95, 124, 59, 68, 44, 119, 125, 96, 61, 96, 31,
       101, 65, 77, 111, 13, 112, 17, 8, 111, 115, 82, 8, 21, 77, 30, 113,
       111, 67, 16, 67, 74, 53, 97, 84, 37, 102, 2, 36, 49, 23, 85, 46, 112,
       115, 76, 6, 9, 76, 25, 96, 65, 95, 32, 46, 16, 121, 19, 80, 99, 61, 44,
       72, 109, 59, 122, 21, 43, 47, 86, 31, 26, 85, 35, 35, 28, 78, 64, 75,
       13, 93, 103, 61, 89, 73, 16, 60, 35, 82, 32, 58, 120, 110, 115, 22, 27,
       118, 79, 38, 96, 3, 66, 58, 35, 2, 108, 46, 1, 98, 119, 48, 96, 16, 79,
       68, 34, 71, 11, 17, 49, 97, 65, 108, 73, 77, 23, 68, 47, 24, 19, 105,
       3, 101, 65, 13, 61, 13, 77, 112, 55, 39, 85, 64, 120, 117, 51, 99, 74,
       112, 66, 94, 62, 127, 0, 78, 10, 58, 74, 110, 75, 76, 47, 31, 44, 41,
       13, 88, 86, 3, 82, 121, 15, 101, 20, 95, 31, 90, 36, 114, 72, 26, 102,
       29, 72, 61, 101, 5, 39, 27, 48, 104, 85, 59, 107, 32, 117, 109, 92, 7,
       22, 26, 75, 11, 10, 48, 23, 68, 55, 88, 79, 18, 26, 72, 54, 114, 38,
       103, 13, 10, 113, 8, 106, 42, 100, 62, 18, 29, 105, 64, 118, 9, 8, 51,
       31, 65, 37, 60, 25, 110, 71, 101, 93, 42, 75, 55, 114, 75, 77, 41, 93,
       21, 57, 17, 95, 29, 18, 52, 59, 61, 32, 112, 47, 88, 48, 44, 9, 79, 65,
       5, 27, 62, 66, 86, 68, 2, 56, 86, 112, 54, 68, 7, 86, 27, 119, 11, 56,
       75, 110, 80, 52, 61, 2, 24, 28, 9, 31, 68, 82, 49, 21, 17, 83, 28, 40,
       49, 83, 107, 116, 95, 84, 45, 89, 8, 74, 98, 73, 81, 61, 4, 96, 25, 52,
       71, 51, 115, 103, 112, 95, 17, 1, 114, 40, 68, 41, 24, 34, 46, 15, 31,
       60, 37, 58, 47, 79, 100, 50, 118, 100, 86, 94, 20, 119, 127, 3, 9, 105,
       126, 123, 74, 65, 5, 66, 116, 116, 95, 40, 64, 104, 37, 59, 4, 109,
       103, 94, 5, 60, 23, 20, 110, 36, 117, 81, 48, 42, 4, 24, 85, 34, 73,
       61, 72, 74, 75, 93, 50, 4, 25, 76, 111, 11, 63, 67, 19, 27, 20, 91, 99,
       60, 42, 15, 60, 64, 14, 57, 127, 91, 76, 115, 94, 127, 79, 124, 18, 7,
       96, 67, 19, 50, 29, 104, 28, 32, 114, 117, 92, 17, 81, 18, 2, 32, 35,
       44, 60, 103, 25, 48, 56, 72, 110, 109, 39, 12, 66, 63, 115, 81, 118,
       92, 103, 6, 86, 47, 29, 82, 103, 16, 40, 1, 0, 101, 88, 16, 55, 65, 1,
       43, 66, 55, 100, 108, 114, 99, 48, 92, 114, 108, 47, 111, 29, 98, 92,
       8, 44, 73, 90, 21, 78, 115, 18, 97, 13, 103, 4, 69, 45, 51, 4, 41, 88,
       119, 37, 113, 32, 18, 92, 9, 31, 84, 6, 36, 12, 68, 10, 78, 110, 55,
       66, 13, 38, 64, 12, 115, 111, 59, 28, 19, 95, 17, 104, 123, 46, 87, 13,
       41, 124, 65, 33, 113, 107, 55, 9, 27, 112, 106, 127, 75, 97, 62, 88,
       23, 44, 82, 90, 69, 74, 34, 113, 127, 98, 62, 110, 80, 15, 76, 1, 20,
       77, 5, 8, 112, 29, 44, 65, 57, 67, 27, 113, 75, 81, 95, 105, 49, 90,
       57, 22, 25, 63, 77, 43, 39, 104, 100, 57, 111, 15, 0, 121, 75, 6, 43,
       50, 32, 113, 30, 38, 38, 92, 11, 115, 16, 74, 6, 9, 41, 101, 118, 73,
       43, 73, 108, 24, 23, 29, 91, 55, 122, 22, 26, 6, 74, 5, 92, 102, 0, 41,
       3, 122, 55, 57, 33, 90, 47, 24, 68, 28, 99, 53, 31, 94, 107, 74, 35,
       114, 85, 29, 113, 105, 13, 43, 121, 6, 0, 94, 10, 9, 77, 86, 77, 6,
       117, 107, 84, 50, 23, 28, 69, 72, 123, 11, 105, 76, 91, 114, 31, 44,
       56, 113, 74, 52, 16, 32, 51, 25, 57, 39, 49, 58, 98, 103, 33, 44, 62,
       109, 121, 100, 77, 77, 66, 28, 93, 62, 89, 81, 70, 17, 47, 27, 74, 93,
       118, 71, 53, 111, 84, 122, 33, 56, 66, 37, 38, 109, 39, 45, 25, 33, 22,
       36, 12, 38, 6, 37, 122, 54, 86, 74, 24, 98, 57, 111, 107, 109, 15, 51,
       22, 50, 12, 126, 59, 76, 58, 29, 6, 3, 71, 63, 74, 69, 87, 107, 77, 27,
       4, 13, 7, 40, 62, 66, 29, 75, 39, 30, 87, 33, 89, 126, 42, 74, 105, 50,
       15, 12, 15, 58, 22, 113, 113, 26, 70, 24, 84, 80, 0, 18, 70, 68, 110,
       119, 64, 27, 91, 127, 44, 19, 37, 23, 105, 97, 97, 123, 3, 46, 43, 33,
       14, 8, 24, 67, 46, 81, 37, 51, 116, 112, 113, 112, 80, 24, 41, 36, 49,
       34, 113, 68, 11, 73, 51, 82, 12, 42, 78, 0, 63, 108, 71, 112, 13, 106,
       45, 17, 23, 106, 120, 55, 59, 44, 8, 51, 23, 61, 60, 49, 41, 57, 78,
       97, 118, 115, 55, 24, 75, 61, 33, 15, 109, 15, 74, 84, 126, 19, 63,
       109, 117, 37, 21, 102, 115, 56, 68, 49, 15, 1, 76, 118, 39, 5, 0, 125,
       8, 74, 0, 6, 54, 48, 105, 39, 76, 41, 84, 49, 15, 68, 80, 18, 56, 100,
       15, 54, 57, 27, 107, 16, 85, 7, 100, 61, 0, 112, 33, 4, 127, 9, 6, 50,
       22, 4, 51, 73, 8, 41, 27, 88, 115, 28, 82, 45, 84, 65, 95, 35, 111, 75,
       15, 66, 32, 90, 2, 7, 42, 124, 85, 17, 45, 81, 77, 88, 127, 0, 57, 60,
       75, 86, 69, 23, 58, 12, 14, 6, 50, 34, 103, 21, 95, 9, 112, 99, 114,
       100, 108, 58, 50, 24, 126, 95, 44, 108, 41, 3, 21, 38, 31, 72, 89, 49,
       100, 7, 7, 120, 101, 77, 118, 105, 70, 89, 14, 107, 67, 79, 40, 81, 76,
       75, 1, 118, 5, 19, 47, 38, 36, 22, 97, 47, 9, 12, 17, 88, 84, 48, 90,
       35, 121, 25, 87, 70, 25, 117, 35, 62, 95, 92, 64, 120, 1, 16, 71, 19,
       53, 38, 90, 41, 3, 50, 71, 86, 117, 22, 68, 48, 50, 49, 24, 14, 17, 37,
       55, 67, 52, 66, 73, 87, 12, 31, 44, 51, 107, 0, 13, 37, 29, 95, 107,
       86, 30, 76, 50, 77, 78, 61, 118, 64, 116, 121, 53, 2, 64, 102, 67, 101,
       39, 26, 89, 106, 5, 14, 83, 23, 4, 64, 40, 1, 40, 116, 98, 93, 26, 32,
       52, 24, 58, 27, 7, 98, 83, 94, 23, 54, 12, 121, 123, 90, 118, 24, 62,
       44, 31, 82, 55, 46, 64, 53, 101, 105, 30, 88, 19, 116, 115, 107, 111,
       17, 101, 2, 88, 36, 62, 86, 100, 93, 112, 113, 111, 32, 12, 74, 30, 85,
       33, 118, 82, 97, 2, 70, 105, 93, 111, 101, 30, 50, 31, 94, 104, 10, 58,
       108, 25, 67, 59, 18, 14, 29, 91, 95, 68, 104, 56, 120, 118, 8, 108, 48,
       26, 72, 47, 45, 58, 14, 11, 109, 21, 42, 41, 2, 95, 57, 57, 43, 29, 93,
       87, 53, 109, 31, 56, 53, 49, 14, 35, 107, 68, 8, 16, 9, 8, 93, 85, 76,
       18, 41, 89, 40, 78, 123, 97, 82, 44, 110, 118, 115, 7, 43, 9, 19, 66,
       31, 30, 1, 5, 34, 61, 76, 113, 84, 52, 21, 54, 83, 103, 60, 110, 73,
       24, 38, 89, 82, 84, 82, 36, 97, 9, 6, 103, 12, 27, 98, 56, 102, 57,
       111, 93, 118, 73, 104, 93, 75, 122, 114, 83, 40, 2, 82, 125, 92, 49,
       105, 49, 3, 38, 105, 109, 121, 47, 90, 5, 97, 54, 58, 26, 33, 53, 42,
       1, 23, 102, 39, 115, 47, 79, 115, 51, 50, 17, 109, 25, 52, 80, 61, 8,
       40, 55, 87, 114, 117, 125, 56, 106, 21, 68, 120, 44, 46, 60, 23, 92, 4,
       19, 4, 117, 84, 95, 72, 41, 106, 109, 105, 30, 51, 14, 102, 39, 9, 45,
       33, 8, 4, 107, 33, 114, 18, 127, 107, 34, 125, 79, 33, 58, 15, 57, 74,
       78, 107, 98, 38, 27, 50, 69, 1, 111, 16, 89, 94, 121, 84, 6, 109, 44,
       62, 20, 14, 31, 6, 61, 1, 66, 23, 75, 87, 122, 35, 82, 97, 70, 11, 6,
       12, 112, 40, 40, 105, 71, 126, 21, 113, 90, 108, 27, 37, 88, 22, 100,
       93, 75, 12, 33, 57, 106, 73, 120, 93, 3, 24, 103, 64, 100, 6, 102, 109,
       67, 124, 18, 10, 46, 105, 88, 5, 85, 31, 11, 53, 3, 68, 14, 43, 100,
       49, 3, 61, 10, 38, 12, 105, 6, 59, 13, 104, 102, 62, 125, 30, 104, 86,
       28, 107, 44, 24, 19, 69, 113, 1, 37, 66, 28, 126, 22, 123, 89, 111, 81,
       61, 123, 126, 109, 79, 60, 64, 84, 117, 3, 82, 104, 82, 15, 72, 104,
       44, 71, 26, 114, 96, 96, 25, 44, 53, 55, 110, 91, 95, 24, 14, 0, 65,
       122, 47, 11, 42, 105, 110, 22, 93, 66, 47, 84, 68, 46, 96, 38, 83, 74,
       76, 85, 113, 0, 20, 28, 6, 83, 24, 75, 86, 86, 44, 30, 71, 119, 83, 77,
       70, 12, 82, 24, 50, 110, 105, 60, 36, 64, 103, 42, 36, 63, 108, 33, 53,
       126, 56, 69, 43, 86, 108, 32, 75, 27, 112, 112, 28, 32, 102, 78, 94,
       55, 6, 62, 34, 51, 108, 123, 56, 1, 97, 16, 60, 29, 53, 70, 29, 87, 62,
       65, 110, 32, 46, 113, 51, 112, 55, 122, 124, 118, 32, 110, 119, 91, 45,
       121, 17, 24, 112, 18, 122, 105, 102, 121, 108, 68, 48, 70, 59, 79, 66,
       88, 19, 57, 111, 14, 102, 22, 71, 56, 37, 13, 77, 7, 52, 76, 123, 121,
       117, 51, 82, 101, 95, 70, 90, 56, 67, 73, 80, 127, 62, 15, 120, 72, 22,
       34, 8, 75, 70, 96, 18, 41, 118, 32, 119, 44, 30, 2, 120, 83, 127, 27,
       91, 18, 52, 31, 125, 73, 111, 113, 119, 112, 111, 44, 124, 40, 56, 122,
       73, 113, 66, 23, 78, 15, 9, 52, 100, 101, 111, 51, 40, 36, 17, 0, 54,
       42, 28, 7, 34, 40, 25, 2, 37, 22, 67, 63, 75, 47, 22, 115, 15, 63, 102,
       23, 71, 23, 14, 49, 51, 104, 11, 23, 87, 119, 11, 63, 9, 18, 59, 66,
       97, 33, 67, 122, 110, 36, 90, 111, 66, 68, 100, 105, 74, 123, 53, 55,
       46, 120, 54, 25, 13, 18, 59, 96, 67, 72, 103, 14, 28, 65, 77, 29, 45,
       38, 109, 122, 60, 124, 83, 92, 90, 21, 37, 29, 113, 96, 98, 67, 61, 59,
       116, 40, 4, 120, 34, 31, 14, 51, 96, 13, 117, 116, 80, 86, 91, 20, 49,
       100, 13, 121, 26, 58, 52, 88, 111, 69, 117, 101, 33, 117, 81, 4, 71,
       26, 60, 11, 101, 18, 20, 14, 66, 76, 27, 16, 33, 121, 81, 38, 92, 79,
       41, 6, 61, 71, 34, 41, 58, 123, 19, 83, 63, 83, 113, 19, 73, 22, 110,
       101, 34, 72, 55, 97, 116, 11, 113, 85, 62, 80, 68, 100, 13, 87, 19, 30,
       62, 37, 93, 67, 69, 118, 37, 70, 124, 30, 79, 120, 52, 5, 63, 88, 25,
       97, 94, 3, 71, 31, 6, 106, 1, 106, 2, 105, 13, 57, 108, 25, 52, 111,
       77, 57, 83, 125, 8, 8, 11, 13, 8, 56, 76, 107, 78, 69, 35, 34, 113, 62,
       99, 39, 107, 121, 42, 49, 70, 32, 86, 78, 53, 56, 39, 109, 5, 7, 6,
       115, 71, 36, 87, 52, 73, 107, 119, 11, 90, 59, 80, 74, 107, 69, 76, 17,
       26, 91, 1, 69, 91, 88, 78, 9, 125, 124, 28, 89, 53, 68, 12, 72, 73, 42,
       118, 45, 44, 60, 14, 96, 84, 17, 97, 1, 18, 105, 11, 104, 46, 9, 102,
       77, 74, 48, 81, 47, 89, 90, 96, 68, 109, 36, 45, 127, 67, 85, 77, 25,
       57, 85, 99, 5, 116, 51, 38, 23, 126, 9, 88, 80, 18, 106, 87, 23, 110,
       96, 2, 52, 7, 80, 69, 10, 37, 50, 63, 89, 100, 13, 85, 29, 83, 92, 112,
       104, 12, 89, 8, 89, 67, 49, 77, 105, 122, 45, 24, 45, 106, 25, 15, 65,
       121, 45, 86, 46, 110, 91, 104, 112, 104, 38, 91, 22, 101, 125, 55, 20,
       72, 79, 96, 17, 91, 55, 71, 127, 101, 84, 119, 96, 6, 93, 91, 91, 110,
       82, 26, 112, 53, 102, 12, 5, 102, 42, 39, 28, 105, 32, 114, 6, 28, 14,
       83, 58, 35, 126, 11, 55, 21, 4, 12, 110, 23, 72, 74, 71, 2, 56, 118, 0,
       9, 8, 124, 46, 102, 118, 73, 1, 125, 51, 84, 5, 78, 87, 51, 22, 33, 29,
       2, 12, 99, 0, 115, 46, 81, 81, 78, 17, 8, 123, 58, 116, 60, 115, 123,
       53, 30, 40, 103, 85, 106, 25, 116, 101, 87, 115, 58, 22, 8, 60, 118,
       89, 103, 85, 87, 7, 87, 5, 96, 38, 105, 22, 79, 123, 44, 73, 28, 126,
       8, 33, 67, 50, 78, 109, 22, 81, 46, 71, 111, 27, 37, 15, 83, 126, 6,
       30, 59, 88, 71, 86, 104, 56, 100, 84, 0, 113, 3, 9, 120, 95, 98, 77,
       20, 35, 85, 57, 101, 97, 73, 125, 122, 118, 8, 36, 79, 35, 18, 2, 22,
       81, 91, 66, 75, 98, 56, 98, 74, 19, 97, 57, 25, 56, 30, 38, 5, 74, 33,
       23, 104, 96, 84, 6, 110, 125, 33, 84, 86, 91, 108, 97, 100, 53, 96, 64,
       41, 88, 20, 115, 48, 112, 8, 57, 16, 62, 73, 24, 10, 98, 41, 56, 103,
       49, 60, 27, 5, 84, 106, 59, 97, 16, 28, 31, 80, 46, 68, 75, 22, 127,
       31, 55, 60, 68, 24, 0, 122, 7, 78, 124, 24, 34, 100, 70, 14, 125, 113,
       81, 8, 21, 81, 119, 48, 64, 52, 114, 1, 118, 88, 68, 13, 110, 64, 91,
       42, 12, 67, 10, 65, 38, 127, 107, 53, 11, 75, 113, 86, 40, 64, 87, 109,
       92, 2, 44, 81, 99, 123, 66, 82, 57, 40, 108, 91, 93, 121, 106, 97, 37,
       36, 8, 108, 51, 2, 87, 120, 67, 27, 16, 113, 112, 93, 102, 78, 118, 98,
       72, 47, 8, 5, 3, 110, 69, 92, 49, 0, 115, 100, 7, 69, 77, 122, 55, 20,
       120, 1, 82, 47, 39, 93, 127, 121, 83, 63, 120, 119, 126, 53, 111, 1, 2,
       117, 51, 39, 93, 27, 30, 98, 10, 102, 115, 41, 126, 41, 19, 15, 2, 102,
       107, 122, 64, 91, 100, 82, 109, 89, 113, 69, 34, 25, 118, 24, 102, 33,
       70, 54, 21, 61, 107, 66, 102, 23, 122, 25, 87, 73, 65, 78, 40, 120, 72,
       77, 56, 61, 115, 101, 42, 112, 67, 0, 93, 61, 119, 25, 58, 50, 14, 5,
       126, 88, 68, 7, 5, 91, 63, 91, 90, 29, 87, 95, 51, 38, 5, 66, 73, 104,
       15, 110, 32, 29, 112, 102, 109, 20, 112, 20, 45, 27, 108, 43, 49, 48,
       68, 37, 80, 108, 39, 46, 31, 61, 102, 126, 100, 66, 40, 113, 36, 2,
       126, 124, 57, 63, 105, 51, 48, 88, 42, 83, 21, 110, 120, 8, 98, 94, 49,
       35, 75, 44, 5, 95, 49, 76, 52, 40, 40, 55, 113, 37, 94, 38, 74, 57, 35,
       29, 84, 47, 15, 2, 15, 110, 31, 28, 99, 7, 75, 50, 52, 116, 97, 62, 55,
       48, 58, 35, 47, 16, 64, 115, 62, 61, 30, 19, 90, 123, 116, 126, 0, 78,
       126, 99, 106, 113, 124, 104, 52, 16, 22, 76, 65, 14, 117, 77, 25, 82,
       107, 68, 98, 68, 73, 38, 85, 39, 123, 54, 73, 6, 111, 1, 116, 0, 85,
       40, 72, 93, 117, 76, 25, 106, 88, 88, 56, 111, 99, 54, 26, 76, 30, 42,
       54, 43, 11, 111, 123, 67, 9, 105, 87, 14, 80, 126, 54, 110, 125, 126,
       120, 19, 76, 96, 48, 92, 34, 121, 34, 120, 103, 111, 109, 13, 91, 13,
       43, 99, 92, 101, 69, 11, 23, 88, 35, 20, 100, 118, 52, 88, 95, 51, 79,
       104, 118, 63, 72, 19, 70, 52, 78, 98, 94, 14, 25, 66, 121, 66, 76, 77,
       66, 63, 30, 126, 37, 74, 85, 101, 2, 59, 59, 109, 56, 6, 127, 26, 46,
       95, 126, 5, 48, 71, 22, 56, 74, 80, 30, 70, 42, 99, 85, 63, 88, 115,
       79, 65, 37, 26, 22, 15, 20, 13, 13, 30, 122, 0, 43, 77, 50, 73, 19, 40,
       110, 93, 15, 9, 78, 65, 17, 69, 98, 37, 123, 42, 81, 18, 17, 66, 36,
       86, 120, 73, 34, 62, 12, 49, 82, 104, 32, 1, 120, 65, 85, 106, 120, 20,
       57, 89, 122, 104, 38, 2, 36, 1, 65, 59, 118, 122, 115, 13, 35, 91, 116,
       37, 18, 56, 43, 2, 68, 107, 2, 49, 105, 21, 98, 4, 98, 88, 100, 84,
       101, 113, 72, 4, 123, 25, 106, 91, 37, 93, 42, 24, 10, 39, 110, 40, 15,
       35, 16, 9, 79, 91, 82, 121, 64, 64, 43, 104, 22, 109, 21, 88, 76, 116,
       75, 61, 54, 33, 13, 71, 67, 26, 76, 45, 75, 123, 113, 21, 74, 91, 48,
       49, 72, 37, 91, 42, 50, 69, 105, 82, 92, 27, 99, 86, 8, 101, 82, 73,
       46, 45, 75, 11, 5, 7, 53, 92, 65, 20, 75, 5, 40, 22, 3, 35, 4, 89, 94,
       52, 105, 66, 103, 107, 56, 1, 45, 65, 110, 42, 52, 103, 85, 120, 81,
       93, 115, 93, 114, 125, 106, 56, 67, 125, 47, 40, 53, 113, 19, 82, 106,
       56, 14, 11, 77, 6, 4, 102, 120, 56, 57, 18, 39, 90, 90, 72, 47, 87, 6,
       9, 29, 90, 31, 28, 4, 72, 124, 64, 102, 106, 114, 117, 111, 46, 56, 46,
       56, 94, 27, 39, 106, 73, 52, 95, 33, 44, 60, 106, 102, 122, 28, 68,
       124, 80, 51, 29, 66, 63, 101, 108, 12, 20, 84, 59, 55, 124, 44, 6, 33,
       111, 26, 100, 83, 38, 92, 61, 29, 108, 90, 68, 52, 91, 3, 27, 52, 4, 4,
       15, 25, 81, 28, 55, 48, 66, 96, 89, 55, 58, 104, 43, 115, 95, 112, 98,
       103, 32, 62, 2, 50, 118, 101, 108, 6, 57, 95, 112, 110, 62, 3, 88, 17,
       67, 125, 42, 73, 6, 100, 98, 41, 72, 114, 31, 7, 27, 49, 50, 27, 27,
       118, 120, 72, 33, 108, 18, 7, 108, 38, 94, 31, 127, 13, 14, 17, 58, 47,
       93, 32, 75, 64, 15, 34, 83, 10, 54, 85, 122, 65, 80, 126, 15, 14, 8,
       96, 31, 2, 85, 89, 39, 50, 65, 25, 30, 15, 39, 9, 60, 66, 58, 81, 93,
       9, 13, 73, 7, 35, 105, 106, 27, 33, 42, 75, 10, 67, 82, 74, 122, 71,
       76, 105, 115, 1, 41, 41, 52, 6, 46, 5, 105, 60, 60, 81, 51, 44, 36, 99,
       75, 100, 33, 14, 19, 79, 84, 72, 34, 68, 51, 35, 44, 63, 99, 8, 13, 56,
       102, 77, 125, 23, 89, 20, 57, 85, 21, 87, 96, 69, 91, 46, 105, 71, 15,
       19, 65, 30, 85, 13, 33, 55, 91, 53, 83, 73, 96, 85, 61, 47, 79, 7, 65,
       90, 62, 92, 21, 122, 93, 124, 118, 52, 23, 63, 94, 116, 110, 25, 77,
       17, 18, 63, 7, 76, 94, 33, 100, 24, 63, 34, 85, 114, 92, 108, 66, 9,
       27, 50, 118, 81, 103, 88, 78, 71, 105, 14, 74, 71, 111, 29, 44, 51, 18,
       122, 100, 91, 29, 21, 124, 7, 92, 46, 17, 40, 123, 94, 127, 34, 36,
       109, 22, 79, 58, 127, 66, 34, 110, 48, 109, 42, 92, 76, 27, 51, 56,
       127, 33, 11, 76, 124, 3, 24, 11, 95, 49, 6, 40, 70, 41, 66, 91, 93, 47,
       114, 39, 32, 57, 118, 13, 44, 13, 27, 12, 100, 22, 32, 33, 79, 74, 47,
       114, 72, 60, 29, 98, 32, 98, 39, 66, 108, 90, 115, 40, 44, 74, 117, 47,
       62, 91, 28, 80, 40, 74, 54, 36, 83, 106, 37, 33, 10, 33, 59, 28, 54, 4,
       60, 112, 45, 72, 56, 27, 54, 32, 38, 23, 61, 4, 74, 25, 24, 110, 60,
       124, 106, 1, 65, 55, 44, 122, 6, 66, 49, 120, 79, 17, 47, 8, 124, 33,
       115, 49, 18, 17, 87, 61, 21, 93, 2, 67, 120, 1, 61, 117, 87, 14, 14, 5,
       101, 44, 57, 66, 86, 125, 66, 100, 57, 52, 36, 56, 115, 94, 122, 27,
       81, 119, 118, 56, 78, 58, 15, 53, 89, 1, 88, 14, 49, 84, 33, 95, 67,
       75, 56, 79, 51, 23, 58, 1, 116, 119, 48, 33, 3, 27, 0, 32, 46, 29, 22,
       94, 101, 116, 116, 97, 54, 29, 114, 69, 72, 76, 121, 0, 61, 38, 110,
       82, 114, 102, 15, 115, 67, 98, 25, 28, 101, 64, 81, 91, 37, 118, 84,
       97, 124, 96, 33, 110, 118, 21, 102, 35, 22, 43, 105, 110, 19, 94, 85,
       84, 1, 21, 77, 66, 69, 123, 42, 53, 101, 89, 93, 127, 38, 103, 34, 6,
       66, 114, 9, 74, 19, 50, 49, 67, 127, 95, 122, 11, 5, 26, 93, 98, 84,
       96, 78, 114, 122, 77, 124, 28, 68, 96, 85, 85, 108, 109, 18, 28, 61,
       35, 115, 100, 0, 65, 46, 46, 40, 32, 21, 97, 53, 90, 48, 104, 29, 40,
       121, 31, 114, 106, 26, 7, 85, 36, 94, 103, 42, 7, 64, 122, 42, 104,
       103, 64, 89, 31, 116, 127, 62, 93, 59, 46, 39, 110, 36, 28, 112, 76,
       47, 12, 114, 116, 108, 115, 118, 81, 72, 20, 96, 125, 126, 59, 57, 63,
       61, 101, 124, 117, 19, 86, 57, 84, 96, 68, 123, 93, 18, 70, 41, 89, 53,
       21, 7, 75, 2, 107, 28, 75, 79, 68, 48, 33, 36, 23, 76, 8, 59, 74, 61,
       78, 103, 57, 85, 82, 92, 22, 123, 44, 2, 19, 68, 110, 51, 61, 92, 19,
       17, 84, 88, 125, 74, 21, 42, 35, 112, 33, 86, 28, 112, 1, 78, 100, 19,
       80, 66, 62, 32, 71, 101, 44, 103, 90, 39, 66, 116, 118, 16, 110, 70,
       115, 89, 48, 110, 98, 1, 3, 119, 12, 112, 85, 52, 100, 90, 41, 3, 112,
       40, 80, 92, 28, 121, 92, 38, 22, 25, 82, 75, 100, 89, 76, 60, 21, 62,
       13, 36, 52, 115, 32, 45, 50, 63, 92, 10, 24, 9, 45, 57, 69, 0, 1, 78,
       94, 102, 13, 118, 38, 51, 7, 31, 28, 24, 6, 127, 10, 60, 15, 97, 12, 9,
       7, 64, 92, 9, 24, 53, 104, 92, 46, 118, 85, 88, 44, 112, 8, 46, 26, 37,
       39, 70, 115, 72, 31, 43, 127, 51, 99, 60, 106, 4, 1, 113, 110, 91, 25,
       80, 23, 16, 10, 46, 74, 47, 67, 69, 51, 69, 28, 110, 89, 60, 35, 24,
       60, 92, 5, 117, 50, 121, 106, 86, 38, 19, 109, 5, 121, 33, 60, 90, 122,
       82, 100, 7, 80, 56, 23, 39, 32, 51, 107, 97, 83, 73, 13, 96, 126, 69,
       1, 107, 68, 127, 127, 75, 32, 46, 62, 2, 9, 10, 75, 89, 107, 102, 109,
       63, 84, 59, 39, 61, 111, 27, 121, 122, 50, 108, 100, 83, 10, 20, 57,
       88, 16, 85, 127, 78, 96, 38, 89, 15, 7, 81, 104, 97, 119, 74, 17, 127,
       31, 112, 85, 50, 95, 68, 56, 98, 97, 30, 8, 0, 46, 33, 83, 109, 2, 94,
       15, 30, 104, 18, 37, 49, 92>>)
    @@
    (100 :> <<
       18, 58, 58, 121, 98, 22, 90, 50, 93, 44, 55, 64, 102, 14, 68, 15, 10,
       94, 58, 33, 6, 84, 119, 82, 121, 26, 42, 29, 39, 107, 98, 126, 26, 122,
       22, 18, 24, 114, 44, 47, 80, 52, 123, 106, 26, 51, 122, 59, 71, 35,
       115, 101, 104, 48, 20, 109, 83, 81, 15, 23, 0, 77, 50, 18, 99, 108, 72,
       20, 24, 21, 107, 3, 116, 85, 30, 124, 57, 102, 81, 118, 115, 49, 16,
       79, 70, 96, 123, 6, 77, 31, 91, 79, 99, 118, 64, 91, 37, 88, 75, 43,
       67, 87, 43, 69, 109, 120, 46, 127, 61, 51, 97, 7, 104, 12, 113, 38, 83,
       55, 32, 30, 108, 105, 116, 90, 91, 55, 98, 113, 65, 102, 63, 115, 74,
       32, 18, 7, 86, 74, 110, 41, 21, 6, 96, 35, 90, 89, 15, 91, 6, 100, 76,
       113, 28, 113, 39, 67, 79, 27, 83, 102, 95, 93, 72, 45, 42, 58, 1, 88,
       14, 60, 24, 105, 67, 15, 92, 76, 26, 5, 49, 92, 119, 13, 51, 86, 91,
       19, 79, 125, 84, 82, 61, 119, 69, 4, 89, 56, 20, 6, 102, 60, 111, 96,
       6, 127, 25, 119, 31, 20, 12, 4, 17, 27, 82, 11, 15, 32, 8, 88, 121, 93,
       51, 4, 69, 54, 60, 57, 43, 89, 58, 67, 24, 77, 74, 109, 32, 53, 18,
       105, 26, 106, 52, 9, 119, 127, 76, 34, 125, 126, 51, 108, 33, 107, 90,
       12, 24, 29, 127, 6, 49, 122, 34, 0, 34, 101, 38, 4, 119, 3, 126, 105,
       71, 37, 29, 51, 1, 83, 10, 28, 38, 82, 82, 92, 80, 2, 109, 11, 105, 74,
       45, 41, 86, 114, 56, 4, 93, 98, 23, 115, 124, 10, 2, 88, 79, 109, 45,
       108, 102, 70, 18, 20, 114, 89, 0, 87, 94, 1, 90, 40, 64, 50, 22, 48,
       48, 93, 57, 25, 27, 116, 20, 76, 107, 73, 70, 118, 34, 9, 80, 58, 81,
       95, 17, 55, 74, 109, 74, 64, 14, 83, 38, 16, 110, 14, 74, 78, 28, 6,
       50, 102, 58, 55, 90, 44, 110, 123, 11, 8, 5, 116, 56, 53, 2, 72, 19,
       61, 13, 88, 11, 37, 80, 86, 12, 71, 72, 107, 123, 18, 17, 123, 97, 70,
       74, 18, 21, 120, 121, 45, 94, 72, 48, 91, 113, 93, 13, 82, 106, 62,
       107, 41, 14, 86, 117, 113, 100, 60, 117, 106, 36, 29, 94, 98, 99, 118,
       44, 29, 4, 117, 1, 28, 64, 14, 70, 11, 16, 60, 80, 113, 6, 94, 61, 44,
       65, 61, 26, 63, 6, 122, 115, 85, 109, 64, 75, 32, 3, 77, 67, 67, 123,
       104, 98, 13, 88, 23, 5, 119, 74, 90, 29, 59, 126, 88, 1, 14, 28, 46,
       112, 41, 15, 80, 38, 13, 39, 39, 112, 110, 89, 56, 119, 79, 24, 41, 11,
       20, 43, 76, 98, 82, 79, 19, 119, 24, 91, 54, 10, 11, 40, 77, 26, 40,
       34, 19, 85, 14, 56, 119, 96, 115, 2, 26, 116, 66, 20, 60, 95, 76, 108,
       84, 5, 106, 69, 56, 124, 44, 0, 10, 63, 7, 54, 126, 48, 19, 24, 55, 23,
       26, 34, 32, 27, 121, 37, 51, 115, 116, 121, 50, 33, 42, 3, 93, 34, 30,
       109, 66, 22, 6, 84, 53, 11, 92, 45, 15, 21, 100, 78, 60, 47, 27, 99,
       84, 66, 30, 51, 121, 2, 59, 107, 43, 5, 33, 63, 76, 126, 6, 101, 9, 45,
       5, 119, 83, 33, 99, 74, 58, 73, 79, 92, 107, 36, 68, 50, 46, 41, 20,
       117, 16, 94, 23, 43, 63, 99, 51, 79, 52, 31, 97, 63, 95, 12, 67, 27,
       22, 9, 31, 10, 2, 78, 101, 106, 35, 106, 61, 28, 120, 121, 120, 42, 52,
       88, 5, 76, 34, 60, 44, 88, 43, 114, 91, 89, 9, 65, 36, 110, 78, 95, 20,
       47, 39, 125, 29, 51, 55, 5, 0, 123, 34, 120, 10, 68, 92, 96, 125, 89,
       111, 12, 105, 101, 35, 80, 54, 123, 119, 61, 68, 35, 94, 98, 80, 70,
       87, 111, 112, 5, 63, 87, 80, 116, 39, 23, 11, 11, 97, 62, 78, 83, 113,
       80, 26, 67, 10, 43, 78, 90, 19, 126, 51, 64, 5, 50, 42, 124, 52, 22,
       103, 72, 55, 107, 31, 101, 87, 95, 77, 87, 10, 57, 47, 123, 113, 0, 36,
       54, 1, 57, 105, 91, 76, 36, 103, 25, 101, 57, 62, 81, 91, 67, 108, 111,
       16, 60, 18, 26, 105, 82, 36, 49, 1, 3, 126, 51, 113, 14, 98, 81, 124,
       115, 100, 93, 73, 122, 31, 18, 121, 106, 115, 97, 96, 30, 106, 60, 107,
       22, 52, 39, 37, 67, 109, 49, 49, 49, 73, 91, 99, 86, 60, 14, 71, 73,
       127, 99, 17, 4, 65, 95, 7, 2, 65, 54, 49, 48, 28, 2, 14, 9, 28, 85, 48,
       34, 39, 66, 94, 20, 114, 78, 61, 119, 78, 96, 70, 46, 85, 122, 44, 44,
       52, 35, 9, 54, 29, 126, 105, 49, 0, 37, 125, 69, 4, 81, 47, 97, 107,
       90, 84, 86, 61, 52, 32, 56, 17, 125, 89, 63, 79, 97, 76, 45, 37, 1, 9,
       50, 15, 66, 101, 51, 112, 26, 84, 20, 34, 6, 5, 90, 11, 67, 103, 104,
       88, 110, 123, 96, 57, 101, 44, 115, 3, 116, 122, 104, 114, 114, 102,
       44, 75, 127, 86, 114, 25, 104, 83, 108, 42, 95, 31, 73, 37, 66, 79,
       119, 104, 36, 40, 82, 41, 119, 40, 33, 13, 20, 85, 39, 121, 56, 125,
       64, 81, 29, 29, 30, 43, 18, 50, 60, 59, 18, 51, 45, 84, 22, 92, 81, 31,
       79, 113, 29, 91, 127, 36, 36, 106, 116, 62, 38, 126, 71, 81, 75, 35,
       74, 127, 43, 3, 101, 48, 79, 49, 71, 54, 61, 107, 36, 66, 52, 92, 94,
       3, 90, 67, 127, 51, 93, 18, 126, 126, 42, 76, 35, 44, 127, 47, 54, 15,
       74, 23, 111, 94, 16, 90, 15, 10, 59, 19, 25, 21, 7, 71, 91, 97, 70, 61,
       58, 90, 81, 75, 39, 9, 50, 12, 42, 63, 82, 56, 58, 96, 74, 37, 70, 93,
       72, 112, 5, 72, 99, 93, 116, 18, 8, 3, 95, 58, 73, 10, 94, 40, 2, 73,
       4, 86, 69, 118, 70, 95, 13, 67, 99, 118, 12, 11, 114, 44, 101, 55, 92,
       70, 109, 13, 37, 0, 78, 43, 2, 58, 96, 112, 23, 93, 6, 90, 97, 53, 7,
       94, 82, 83, 122, 94, 69, 80, 70, 43, 97, 33, 95, 95, 63, 11, 6, 113,
       126, 111, 93, 58, 61, 78, 85, 106, 32, 90, 29, 49, 4, 70, 50, 96, 72,
       1, 13, 35, 23, 88, 49, 105, 0, 23, 103, 53, 20, 114, 116, 85, 72, 27,
       39, 28, 9, 18, 80, 65, 7, 70, 42, 100, 127, 12, 106, 75, 90, 116, 74,
       36, 79, 82, 95, 120, 112, 24, 12, 112, 114, 88, 124, 51, 74, 114, 42,
       98, 6, 115, 44, 51, 4, 112, 86, 64, 76, 87, 93, 100, 111, 89, 40, 28,
       95, 43, 94, 38, 71, 21, 8, 102, 110, 121, 70, 82, 59, 117, 109, 48, 14,
       0, 4, 42, 85, 93, 91, 125, 67, 34, 71, 116, 98, 110, 105, 96, 82, 66,
       93, 82, 65, 70, 21, 103, 102, 58, 6, 86, 21, 12, 73, 2, 47, 71, 113, 3,
       38, 67, 62, 88, 24, 80, 107, 7, 46, 28, 91, 109, 94, 27, 57, 13, 14,
       58, 123, 80, 4, 62, 105, 125, 20, 100, 54, 59, 56, 89, 54, 62, 75, 96,
       86, 32, 86, 63, 8, 32, 47, 49, 24, 116, 123, 13, 69, 121, 126, 111, 26,
       9, 87, 111, 66, 3, 42, 108, 24, 6, 77, 51, 113, 108, 63, 80, 66, 104,
       121, 5, 33, 97, 45, 75, 112, 46, 10, 10, 4, 40, 84, 22, 61, 116, 116,
       1, 72, 62, 35, 12, 84, 86, 56, 2, 80, 48, 25, 68, 8, 81, 116, 36, 107,
       120, 19, 76, 13, 94, 106, 77, 90, 127, 57, 104, 108, 123, 104, 108,
       105, 79, 116, 124, 103, 31, 0, 71, 81, 89, 12, 74, 114, 40, 105, 103,
       77, 1, 55, 23, 87, 87, 37, 96, 88, 30, 123, 75, 4, 34, 49, 40, 103, 2,
       23, 37, 44, 37, 104, 88, 73, 115, 33, 62, 51, 82, 46, 16, 65, 10, 127,
       115, 31, 92, 41, 119, 113, 54, 62, 125, 82, 119, 111, 117, 12, 1, 22,
       80, 18, 69, 22, 110, 8, 4, 30, 13, 117, 79, 115, 90, 87, 50, 66, 61,
       95, 77, 122, 70, 36, 86, 93, 63, 16, 83, 48, 50, 67, 12, 80, 3, 26, 38,
       52, 106, 21, 9, 46, 49, 102, 24, 30, 95, 42, 20, 77, 116, 24, 107, 112,
       113, 41, 80, 38, 21, 40, 53, 58, 15, 57, 62, 51, 108, 53, 21, 24, 60,
       8, 113, 110, 44, 106, 26, 95, 53, 62, 63, 123, 82, 16, 74, 6, 69, 118,
       116, 69, 97, 69, 33, 66, 78, 91, 0, 84, 23, 94, 64, 65, 77, 100, 67,
       84, 71, 106, 86, 99, 10, 16, 1, 56, 103, 85, 124, 91, 36, 56, 114, 75,
       56, 113, 40, 28, 121, 34, 74, 38, 33, 18, 95, 76, 105, 74, 91, 126, 90,
       67, 11, 30, 90, 13, 48, 76, 93, 18, 14, 17, 71, 59, 22, 103, 81, 37,
       14, 34, 36, 6, 22, 123, 119, 102, 69, 67, 89, 9, 114, 121, 109, 77, 94,
       90, 71, 85, 28, 71, 95, 52, 67, 97, 45, 11, 68, 34, 30, 71, 50, 58,
       120, 64, 80, 72, 63, 13, 1, 21, 102, 0, 32, 85, 31, 82, 31, 2, 45, 24,
       80, 41, 15, 101, 6, 95, 35, 23, 80, 58, 60, 74, 30, 101, 39, 23, 13,
       26, 9, 98, 24, 88, 27, 38, 21, 31, 114, 57, 21, 4, 110, 79, 11, 100,
       12, 27, 60, 112, 52, 108, 112, 7, 37, 97, 70, 99, 24, 76, 13, 28, 6,
       61, 5, 121, 5, 77, 56, 123, 60, 104, 107, 76, 91, 105, 27, 60, 6, 17,
       20, 70, 24, 25, 99, 39, 18, 11, 12, 67, 41, 98, 56, 127, 51, 96, 94,
       91, 41, 97, 71, 29, 66, 78, 29, 116, 52, 84, 100, 49, 11, 93, 64, 112,
       87, 54, 41, 28, 6, 44, 67, 93, 21, 26, 65, 27, 115, 123, 4, 5, 118, 13,
       55, 103, 35, 84, 88, 112, 26, 118, 114, 23, 8, 94, 64, 34, 35, 86, 25,
       6, 37, 98, 83, 26, 14, 83, 105, 58, 1, 84, 78, 51, 61, 3, 66, 38, 108,
       32, 43, 127, 89, 5, 53, 98, 55, 17, 59, 42, 37, 90, 35, 71, 47, 4, 80,
       36, 85, 38, 48, 82, 107, 65, 109, 58, 116, 1, 23, 56, 46, 59, 38, 18,
       56, 72, 14, 18, 98, 48, 37, 16, 32, 45, 72, 11, 16, 72, 4, 76, 17, 120,
       89, 39, 94, 14, 55, 51, 25, 94, 55, 30, 4, 122, 24, 32, 118, 82, 14,
       13, 40, 74, 61, 98, 109, 64, 114, 36, 11, 72, 78, 126, 13, 33, 35, 95,
       88, 69, 38, 126, 11, 35, 8, 108, 30, 3, 4, 120, 121, 6, 85, 42, 126,
       28, 50, 35, 87, 112, 80, 26, 78, 74, 87, 76, 64, 7, 7, 97, 123, 123,
       98, 66, 106, 25, 126, 38, 89, 73, 71, 123, 61, 95, 75, 36, 100, 18, 98,
       93, 54, 62, 89, 41, 32, 104, 110, 39, 5, 97, 119, 98, 82, 100, 117, 31,
       13, 62, 15, 114, 44, 36, 119, 11, 127, 7, 47, 81, 28, 62, 106, 92, 126,
       119, 23, 73, 23, 54, 33, 112, 55, 88, 2, 7, 7, 34, 49, 77, 5, 28, 88,
       127, 72, 6, 98, 115, 124, 119, 97, 49, 86, 46, 21, 73, 15, 31, 6, 127,
       109, 82, 96, 65, 90, 34, 121, 74, 119, 77, 115, 93, 78, 93, 8, 93, 98,
       11, 29, 61, 34, 50, 63, 101, 6, 28, 93, 40, 31, 35, 86, 40, 119, 120,
       31, 113, 99, 125, 106, 44, 70, 56, 119, 6, 63, 80, 54, 57, 101, 46, 97,
       111, 45, 127, 42, 86, 79, 95, 22, 88, 59, 103, 116, 73, 92, 121, 87,
       24, 108, 82, 38, 61, 103, 40, 32, 88, 101, 5, 87, 115, 93, 101, 119,
       19, 38, 113, 18, 44, 119, 93, 5, 5, 10, 103, 85, 96, 56, 52, 96, 48,
       19, 64, 124, 14, 94, 125, 19, 64, 85, 79, 124, 72, 5, 21, 69, 90, 26,
       122, 55, 127, 69, 56, 21, 57, 20, 126, 9, 101, 116, 86, 64, 86, 116,
       111, 35, 39, 36, 44, 5, 43, 115, 24, 42, 76, 33, 1, 115, 79, 24, 37,
       116, 52, 94, 19, 34, 106, 110, 26, 105, 5, 52, 103, 28, 5, 120, 37,
       110, 127, 1, 21, 59, 68, 76, 90, 81, 71, 119, 67, 79, 97, 105, 6, 13,
       40, 55, 22, 119, 126, 122, 114, 37, 26, 109, 70, 90, 93, 78, 69, 2, 95,
       104, 98, 115, 7, 113, 14, 125, 28, 94, 27, 7, 14, 17, 37, 10, 55, 40,
       55, 13, 21, 107, 71, 23, 80, 17, 34, 24, 126, 47, 85, 1, 121, 9, 62,
       88, 96, 94, 81, 45, 115, 43, 39, 116, 51, 98, 117, 78, 32, 13, 54, 49,
       33, 119, 5, 12, 122, 38, 1, 21, 70, 12, 69, 18, 110, 118, 126, 38, 91,
       77, 63, 95, 115, 108, 25, 118, 81, 86, 39, 59, 118, 48, 8, 13, 76, 124,
       34, 79, 121, 6, 22, 53, 92, 53, 1, 83, 31, 23, 47, 124, 81, 108, 100,
       29, 57, 56, 17, 29, 42, 47, 15, 104, 109, 111, 55, 105, 58, 103, 91,
       82, 81, 82, 64, 76, 51, 3, 76, 107, 5, 19, 92, 9, 35, 46, 38, 90, 8,
       13, 123, 17, 56, 80, 4, 60, 126, 92, 101, 76, 104, 87, 16, 38, 28, 8,
       95, 37, 72, 118, 93, 67, 89, 97, 85, 110, 114, 5, 111, 87, 82, 110, 17,
       28, 67, 35, 64, 117, 55, 127, 120, 53, 68, 45, 111, 1, 113, 63, 100,
       112, 10, 122, 78, 79, 45, 117, 94, 118, 13, 78, 0, 33, 88, 24, 83, 115,
       82, 80, 13, 27, 84, 31, 114, 54, 110, 97, 69, 126, 44, 94, 113, 49,
       120, 15, 100, 65, 58, 51, 12, 87, 53, 100, 96, 63, 27, 77, 47, 109, 43,
       38, 100, 73, 40, 1, 72, 24, 34, 88, 120, 39, 25, 93, 107, 110, 50, 25,
       93, 86, 120, 92, 12, 67, 26, 50, 24, 5, 25, 122, 95, 109, 36, 64, 68,
       8, 16, 22, 65, 12, 37, 118, 92, 47, 46, 25, 13, 71, 61, 94, 31, 13, 1,
       82, 59, 103, 78, 38, 97, 110, 92, 68, 4, 108, 51, 66, 42, 9, 109, 107,
       83, 20, 30, 95, 72, 85, 104, 55, 86, 60, 80, 85, 72, 45, 126, 31, 113,
       15, 55, 85, 123, 50, 108, 90, 50, 46, 56, 109, 4, 67, 105, 50, 13, 88,
       41, 82, 114, 119, 118, 123, 25, 117, 69, 86, 43, 68, 92, 109, 61, 72,
       83, 113, 89, 5, 126, 123, 42, 34, 0, 111, 37, 43, 2, 69, 8, 90, 4, 45,
       31, 82, 75, 18, 14, 29, 55, 106, 100, 122, 70, 77, 47, 2, 92, 55, 114,
       32, 117, 57, 52, 18, 95, 107, 91, 125, 40, 13, 24, 127, 87, 109, 5, 87,
       4, 102, 127, 43, 68, 16, 49, 77, 62, 117, 25, 2, 20, 116, 51, 48, 94,
       54, 110, 11, 5, 0, 45, 40, 98, 12, 66, 46, 114, 112, 50, 89, 86, 73,
       110, 23, 64, 122, 15, 75, 6, 12, 15, 24, 75, 87, 121, 26, 23, 34, 53,
       31, 6, 20, 35, 65, 32, 55, 1, 49, 89, 40, 102, 85, 41, 29, 115, 121,
       117, 45, 109, 120, 80, 48, 38, 35, 100, 119, 43, 98, 126, 22, 115, 95,
       35, 76, 112, 75, 12, 36, 37, 74, 47, 51, 113, 88, 92, 37, 85, 10, 95,
       82, 62, 49, 36, 78, 18, 52, 97, 78, 48, 122, 53, 11, 26, 56, 125, 125,
       24, 38, 1, 10, 43, 88, 31, 21, 36, 59, 8, 38, 107, 44, 58, 7, 97, 98,
       82, 87, 8, 19, 106, 45, 37, 24, 101, 52, 49, 105, 40, 115, 6, 124, 12,
       70, 17, 16, 66, 21, 109, 91, 10, 81, 111, 73, 42, 108, 111, 10, 41, 5,
       20, 119, 25, 39, 114, 77, 104, 63, 6, 90, 61, 87, 83, 23, 64, 13, 72,
       17, 79, 61, 15, 107, 12, 86, 2, 10, 5, 35, 45, 127, 58, 4, 23, 13, 82,
       66, 71, 17, 67, 69, 94, 6, 127, 62, 17, 112, 121, 39, 38, 52, 82, 40,
       51, 63, 119, 78, 119, 126, 20, 39, 4, 59, 68, 113, 50, 73, 90, 108, 87,
       31, 105, 107, 90, 121, 84, 21, 5, 0, 63, 94, 93, 68, 83, 32, 96, 55,
       74, 65, 122, 95, 85, 64, 121, 113, 111, 85, 10, 28, 117, 11, 17, 79,
       82, 115, 114, 92, 34, 85, 82, 69, 71, 88, 105, 118, 101, 15, 27, 107,
       18, 3, 102, 109, 14, 79, 113, 82, 0, 62, 67, 37, 101, 27, 13, 63, 58,
       79, 66, 60, 41, 92, 73, 78, 24, 68, 9, 86, 24, 76, 96, 18, 111, 27, 33,
       107, 6, 80, 47, 65, 81, 57, 127, 37, 45, 22, 58, 69, 100, 81, 15, 89,
       116, 88, 119, 1, 108, 102, 50, 33, 97, 2, 85, 96, 100, 56, 38, 21, 110,
       58, 94, 100, 57, 12, 99, 8, 47, 100, 111, 3, 104, 42, 81, 11, 75, 104,
       61, 7, 83, 105, 66, 7, 50, 79, 30, 18, 70, 49, 70, 48, 58, 97, 0, 39,
       4, 98, 115, 98, 120, 43, 40, 58, 107, 0, 89, 103, 17, 4, 52, 127, 9,
       41, 44, 65, 76, 12, 92, 59, 110, 5, 77, 103, 122, 116, 53, 62, 74, 60,
       108, 127, 34, 54, 127, 14, 14, 64, 83, 30, 66, 95, 101, 3, 54, 122, 40,
       56, 64, 51, 2, 89, 114, 18, 104, 75, 97, 97, 61, 29, 19, 28, 123, 31,
       9, 89, 104, 69, 81, 69, 44, 69, 115, 27, 80, 53, 2, 79, 117, 58, 120,
       114, 85, 103, 30, 18, 34, 77, 42, 65, 25, 126, 51, 14, 11, 88, 79, 76,
       105, 83, 39, 44, 27, 127, 118, 31, 17, 90, 53, 17, 58, 59, 6, 6, 91,
       25, 79, 4, 100, 17, 37, 88, 110, 33, 84, 59, 95, 18, 63, 41, 83, 86,
       61, 71, 46, 34, 127, 98, 33, 99, 34, 42, 20, 102, 6, 46, 34, 16, 121,
       18, 29, 74, 108, 59, 78, 112, 45, 15, 46, 24, 76, 60, 49, 18, 127, 82,
       80, 125, 4, 111, 19, 83, 111, 27, 6, 119, 16, 54, 53, 64, 118, 74, 44,
       35, 48, 26, 100, 123, 84, 79, 99, 76, 41, 30, 26, 66, 106, 102, 31, 86,
       93, 53, 104, 73, 40, 106, 69, 61, 32, 113, 78, 102, 10, 56, 44, 73, 75,
       24, 87, 103, 74, 67, 74, 42, 76, 81, 4, 35, 103, 90, 126, 122, 92, 73,
       114, 52, 122, 74, 25, 36, 35, 106, 114, 101, 0, 116, 49, 31, 34, 34,
       56, 32, 45, 41, 54, 43, 107, 58, 88, 63, 92, 57, 113, 74, 74, 48, 12,
       119, 70, 95, 88, 13, 2, 83, 34, 27, 110, 52, 70, 85, 28, 22, 40, 22,
       65, 83, 113, 90, 6, 118, 63, 27, 25, 76, 17, 108, 3, 76, 65, 76, 50,
       117, 107, 54, 12, 60, 18, 111, 29, 125, 61, 116, 50, 100, 71, 105, 97,
       84, 108, 46, 78, 65, 92, 18, 102, 59, 80, 38, 119, 126, 80, 86, 122,
       37, 61, 55, 31, 98, 110, 72, 52, 118, 48, 20, 69, 106, 82, 72, 62, 25,
       94, 125, 56, 99, 106, 42, 28, 122, 25, 113, 119, 127, 42, 71, 34, 119,
       56, 45, 0, 15, 21, 92, 34, 107, 122, 36, 65, 29, 66, 2, 6, 45, 60, 122,
       74, 33, 72, 26, 13, 69, 110, 118, 87, 107, 104, 110, 30, 93, 100, 105,
       14, 32, 20, 17, 66, 97, 0, 19, 98, 73, 29, 29, 89, 107, 84, 46, 120,
       91, 33, 65, 126, 17, 68, 51, 3, 114, 121, 97, 75, 67, 115, 19, 74, 122,
       93, 76, 63, 3, 116, 110, 100, 61, 70, 97, 79, 22, 30, 91, 28, 111, 119,
       94, 39, 22, 28, 98, 36, 22, 42, 17, 99, 101, 78, 6, 83, 35, 117, 125,
       71, 47, 79, 73, 64, 124, 56, 82, 111, 116, 61, 83, 96, 94, 120, 102,
       91, 106, 79, 75, 73, 120, 17, 86, 41, 33, 120, 82, 111, 112, 84, 19,
       43, 39, 88, 114, 15, 34, 80, 3, 120, 18, 123, 31, 108, 88, 29, 1, 61,
       55, 31, 12, 117, 32, 97, 56, 126, 81, 42, 97, 56, 43, 107, 52, 70, 106,
       32, 4, 12, 99, 4, 95, 1, 98, 21, 123, 43, 47, 76, 67, 127, 94, 6, 6, 5,
       20, 1, 75, 97, 79, 86, 79, 48, 89, 66, 31, 110, 13, 23, 32, 115, 82,
       24, 78, 98, 93, 116, 37, 6, 59, 34, 1, 41, 33, 119, 123, 17, 105, 117,
       124, 66, 90, 13, 47, 101, 117, 35, 41, 4, 80, 88, 44, 57, 86, 120, 62,
       120, 87, 112, 121, 4, 61, 50, 15, 117, 86, 81, 45, 62, 31, 68, 25, 117,
       67, 119, 100, 49, 2, 127, 33, 69, 79, 125, 120, 72, 109, 121, 42, 95,
       125, 122, 16, 68, 77, 59, 55, 74, 26, 24, 98, 126, 30, 7, 127, 61, 57,
       12, 85, 106, 77, 49, 119, 59, 51, 34, 118, 101, 94, 113, 115, 121, 106,
       99, 5, 25, 24, 111, 31, 36, 121, 14, 59, 28, 106, 9, 121, 37, 84, 21,
       10, 34, 59, 60, 101, 28, 15, 11, 50, 96, 123, 80, 82, 11, 89, 103, 102,
       26, 3, 114, 78, 115, 108, 80, 59, 78, 11, 0, 55, 31, 80, 20, 90, 91,
       69, 55, 32, 81, 43, 117, 15, 0, 18, 83, 15, 51, 124, 92, 93, 115, 63,
       94, 13, 96, 100, 30, 26, 29, 70, 63, 59, 97, 23, 41, 17, 97, 100, 111,
       12, 117, 108, 114, 12, 2, 91, 86, 116, 72, 77, 98, 88, 78, 95, 25, 15,
       121, 75, 46, 35, 117, 107, 26, 71, 92, 112, 95, 61, 2, 11, 76, 7, 29,
       80, 25, 37, 48, 95, 66, 43, 85, 13, 54, 72, 86, 37, 123, 123, 83, 112,
       70, 58, 40, 32, 115, 82, 93, 120, 14, 58, 107, 5, 92, 42, 92, 30, 112,
       91, 1, 21, 95, 14, 68, 110, 39, 34, 0, 116, 19, 127, 26, 16, 23, 97,
       38, 114, 81, 46, 123, 41, 18, 46, 47, 14, 46, 13, 81, 54, 42, 104, 44,
       110, 51, 14, 48, 6, 64, 9, 127, 42, 56, 113, 79, 126, 72, 51, 63, 126,
       8, 90, 79, 61, 30, 57, 40, 55, 23, 82, 80, 80, 66, 26, 93, 77, 121,
       111, 87, 7, 89, 117, 64, 51, 124, 105, 46, 13, 41, 103, 103, 14, 124,
       126, 40, 71, 117, 70, 77, 71, 46, 81, 67, 65, 126, 0, 33, 49, 63, 54,
       79, 23, 112, 125, 44, 28, 77, 69, 94, 59, 89, 67, 102, 29, 55, 81, 23,
       45, 40, 38, 21, 4, 76, 54, 2, 69, 10, 114, 31, 22, 107, 3, 86, 114, 50,
       107, 115, 58, 66, 68, 58, 98, 36, 58, 43, 81, 31, 98, 91, 43, 15, 40,
       75, 45, 40, 113, 51, 113, 2, 113, 102, 91, 6, 49, 62, 42, 14, 85, 109,
       6, 86, 71, 46, 42, 23, 35, 67, 10, 75, 75, 113, 48, 65, 110, 78, 19,
       94, 23, 21, 110, 100, 122, 85, 17, 87, 67, 37, 74, 116, 48, 14, 51,
       104, 127, 117, 33, 35, 121, 99, 59, 5, 7, 106, 31, 121, 15, 33, 8, 11,
       91, 90, 3, 118, 125, 80, 127, 26, 4, 90, 58, 127, 100, 21, 55, 105, 97,
       35, 35, 74, 59, 34, 104, 51, 60, 47, 4, 110, 64, 78, 39, 78, 67, 32,
       15, 61, 93, 98, 18, 125, 49, 49, 95, 96, 7, 90, 17, 45, 26, 6, 19, 64,
       19, 106, 96, 7, 118, 65, 34, 50, 93, 77, 28, 87, 33, 33, 74, 80, 36,
       35, 46, 82, 122, 121, 6, 45, 89, 9, 11, 41, 89, 96, 16, 30, 12, 50, 84,
       118, 20, 98, 7, 40, 32, 75, 96, 103, 40, 108, 80, 58, 32, 115, 64, 57,
       47, 117, 83, 103, 17, 52, 107, 124, 46, 119, 61, 88, 114, 70, 63, 37,
       96, 10, 29, 32, 123, 93, 60, 77, 5, 14, 61, 45, 41, 114, 124, 116, 105,
       54, 107, 76, 62, 101, 84, 4, 69, 67, 76, 10, 92, 82, 98, 90, 51, 62,
       64, 83, 3, 1, 110, 113, 117, 41, 78, 78, 15, 46, 39, 17, 31, 121, 92,
       117, 95, 79, 13, 41, 68, 28, 85, 70, 114, 62, 51, 110, 63, 120, 44,
       111, 37, 104, 21, 84, 123, 101, 39, 99, 49, 76, 25, 11, 103, 31, 54,
       99, 3, 122, 81, 43, 16, 75, 5, 45, 56, 36, 28, 62, 56, 82, 97, 1, 56,
       87, 74, 102, 89, 34, 44, 14, 34, 84, 32, 93, 70, 4, 27, 79, 114, 18, 1,
       60, 18, 56, 61, 67, 90, 120, 13, 15, 38, 17, 110, 36, 5, 29, 24, 120,
       16, 54, 28, 116, 9, 121, 37, 25, 115, 39, 54, 10, 90, 33, 86, 89, 69,
       35, 87, 31, 37, 88, 10, 104, 90, 120, 19, 111, 28, 43, 122, 101, 85,
       50, 55, 48, 102, 42, 46, 27, 82, 103, 91, 100, 101, 83, 28, 122, 64,
       55, 8, 120, 62, 123, 117, 77, 82, 48, 83, 127, 57, 31, 120, 68, 94, 84,
       99, 83, 14, 56, 4, 118, 2, 76, 80, 50, 38, 84, 13, 90, 116, 39, 125,
       60, 4, 89, 124, 15, 123, 81, 116, 24, 46, 36, 11, 59, 60, 114, 57, 15,
       59, 21, 57, 119, 63, 103, 50, 79, 42, 29, 58, 25, 69, 27, 81, 15, 83,
       41, 24, 7, 9, 12, 69, 9, 63, 84, 60, 45, 61, 35, 69, 124, 19, 117, 45,
       88, 92, 67, 65, 35, 104, 0, 60, 28, 19, 18, 124, 20, 66, 60, 87, 93,
       43, 119, 16, 40, 107, 22, 50, 64, 110, 48, 34, 71, 17, 77, 50, 15, 54,
       23, 93, 4, 123, 15, 23, 70, 35, 90, 3, 93, 70, 5, 58, 20, 11, 26, 100,
       124, 74, 56, 82, 91, 111, 60, 53, 96, 118, 59, 98, 34, 21, 5, 70, 64,
       107, 105, 31, 17, 61, 115, 113, 121, 111, 2, 7, 3, 53, 37, 33, 114, 83,
       114, 40, 70, 65, 34, 20, 51, 44, 57, 61, 4, 112, 113, 110, 74, 57, 126,
       82, 11, 24, 13, 96, 41, 21, 39, 6, 10, 123, 12, 95, 97, 98, 97, 80, 35,
       114, 63, 110, 107, 51, 42, 34, 89, 40, 70, 45, 92, 8, 29, 6, 127, 94,
       32, 99, 1, 124, 113, 102, 80, 96, 96, 46, 40, 93, 17, 67, 85, 7, 85,
       87, 118, 120, 31, 98, 16, 31, 11, 75, 2, 77, 3, 107, 112, 108, 18, 83,
       48, 110, 109, 112, 94, 19, 49, 35, 63, 56, 119, 9, 19, 72, 78, 74, 74,
       86, 18, 37, 121, 25, 56, 92, 68, 112, 112, 82, 90, 13, 44, 85, 103, 16,
       31, 39, 40, 81, 126, 12, 98, 100, 94, 125, 117, 6, 46, 77, 100, 80, 60,
       51, 18, 36, 56, 45, 6, 29, 81, 31, 126, 111, 12, 51, 24, 10, 50, 8, 45,
       98, 104, 4, 46, 44, 126, 118, 40, 127, 81, 61, 45, 31, 70, 24, 88, 43,
       67, 80, 5, 19, 3, 33, 100, 63, 19, 114, 72, 24, 43, 127, 45, 13, 28,
       39, 33, 57, 113, 0, 88, 68, 118, 65, 105, 7, 62, 14, 58, 48, 68, 46,
       43, 24, 22, 52, 53, 97, 32, 25, 91, 36, 95, 113, 59, 7, 63, 43, 4, 67,
       69, 75, 25, 26, 22, 88, 22, 92, 76, 51, 80, 117, 127, 86, 17, 54, 124,
       30, 105, 19, 45, 103, 42, 11, 85, 22, 54, 76, 55, 26, 92, 48, 40, 12,
       77, 91, 86, 16, 119, 17, 39, 19, 11, 27, 26, 41, 86, 100, 86, 115, 93,
       8, 126, 94, 38, 25, 109, 69, 67, 40, 109, 36, 58, 36, 105, 36, 35, 68,
       124, 70, 76, 40, 9, 22, 102, 118, 22, 35, 58, 123, 4, 1, 117, 125, 56,
       100, 47, 36, 100, 16, 28, 92, 116, 11, 26, 50, 21, 91, 80, 84, 103, 68,
       74, 43, 40, 16, 113, 108, 18, 47, 37, 121, 62, 48, 34, 99, 20, 73, 53,
       30, 42, 86, 3, 76, 83, 7, 3, 30, 22, 53, 34, 81, 72, 31, 50, 27, 81,
       53, 44, 116, 34, 33, 36, 35, 48, 18, 33, 26, 18, 47, 24, 57, 68, 76,
       49, 17, 101, 49, 61, 77, 111, 88, 32, 99, 103, 50, 31, 115, 126, 25,
       125, 5, 3, 25, 39, 61, 4, 96, 69, 26, 49, 13, 98, 16, 14, 102, 126, 12,
       67, 76, 97, 108, 90, 20, 63, 76, 24, 111, 9, 59, 101, 80, 74, 25, 83,
       106, 8, 51, 97, 41, 44, 70, 91, 41, 35, 116, 83, 17, 116, 21, 109, 112,
       76, 9, 29, 24, 119, 38, 64, 81, 57, 56, 78, 101, 81, 108, 24, 114, 23,
       18, 87, 61, 54, 64, 4, 46, 25, 63, 80, 43, 88, 24, 46, 115, 103, 28,
       12, 91, 64, 17, 88, 54, 70, 121, 126, 43, 56, 51, 49, 6, 111, 35, 54,
       126, 49, 81, 81, 49, 92, 33, 38, 37, 49, 87, 48, 86, 73, 6, 83, 17,
       122, 96, 14, 11, 79, 112, 103, 115, 12, 31, 15, 100, 22, 92, 61, 94, 3,
       105, 45, 84, 22, 112, 42, 45, 120, 119, 47, 31, 53, 1, 30, 13, 7, 98,
       29, 36, 33, 127, 35, 15, 61, 116, 52, 97, 77, 46, 77, 11, 67, 20, 50,
       47, 37, 125, 89, 111, 120, 98, 88, 54, 74, 35, 31, 87, 112, 28, 16, 55,
       60, 58, 109, 45, 117, 102, 11, 66, 86, 26, 117, 44, 78, 80, 124, 113,
       121, 60, 15, 41, 94, 41, 22, 86, 24, 107, 107, 112, 36, 5, 39, 111, 89,
       106, 83, 102, 111, 95, 79, 76, 62, 85, 31, 42, 79, 111, 17, 116, 112,
       119, 80, 123, 59, 6, 5, 118, 2, 86, 43, 78, 59, 125, 110, 3, 88, 82,
       93, 96, 91, 122, 23, 17, 121, 50, 22, 33, 122, 1, 83, 80, 10, 13, 99,
       91, 27, 0, 65, 50, 97, 31, 9, 80, 73, 83, 77, 125, 83, 20, 77, 65, 18,
       32, 126, 121, 120, 64, 126, 47, 72, 34, 51, 69, 36, 43, 63, 63, 20, 60,
       35, 100, 76, 90, 19, 85, 103, 76, 68, 26, 126, 63, 17, 20, 33, 31, 125,
       118, 48, 10, 106, 11, 58, 20, 77, 62, 113, 120, 1, 12, 102, 95, 98, 89,
       38, 104, 13, 37, 41, 61, 97, 99, 29, 120, 36, 4, 82, 127, 44, 56, 18,
       65, 117, 46, 61, 23, 54, 57, 114, 83, 99, 43, 81, 100, 80, 124, 13, 75,
       27, 97, 85, 51, 6, 46, 92, 63, 27, 32, 70, 107, 79, 125, 7, 93, 82, 90,
       98, 42, 122, 111, 21, 20, 103, 77, 19, 50, 93, 21, 78, 70, 114, 81,
       103, 57, 127, 54, 112, 101, 92, 32, 40, 85, 90, 122, 98, 112, 96, 93,
       97, 86, 48, 15, 110, 43, 105, 40, 104, 105, 92, 70, 81, 66, 43, 110,
       39, 21, 93, 43, 125, 63, 69, 59, 57, 91, 56, 86, 16, 125, 39, 89, 105,
       6, 87, 90, 56, 30, 73, 28, 54, 32, 118, 95, 62, 63, 102, 82, 99, 78,
       88, 40, 122, 27, 1, 10, 36, 93, 121, 1, 42, 118, 19, 83, 100, 87, 75,
       7, 42, 117, 23, 79, 16, 12, 23, 71, 25, 118, 54, 57, 114, 117, 55, 74,
       99, 101, 100, 97, 46, 86, 4, 110, 86, 40, 35, 106, 61, 105, 33, 15, 10,
       7, 83, 86, 83, 61, 84, 33, 85, 100, 106, 62, 7, 58, 32, 38, 53, 90, 87,
       98, 52, 77, 84, 56, 127, 56, 111, 40, 32, 101, 79, 75, 115, 15, 75,
       113, 63, 66, 83, 48, 104, 44, 45, 87, 109, 36, 38, 65, 91, 121, 15, 64,
       16, 30, 57, 94, 69, 80, 18, 56, 64, 117, 39, 17, 43, 90, 65, 23, 89,
       118, 107, 125, 2, 28, 13, 95, 101, 101, 23, 24, 69, 118, 36, 31, 37,
       117, 12, 15, 125, 115, 55, 84, 46, 5, 99, 86, 4, 78, 7, 76, 111, 73,
       119, 79, 49, 71, 9, 22, 11, 53, 90, 101, 77, 101, 107, 20, 38, 106, 5,
       3, 55, 79, 73, 121, 100, 13, 2, 18, 92, 65, 115, 87, 113, 57, 56, 8,
       12, 84, 109, 118, 126, 3, 107, 11, 114, 101, 74, 43, 53, 53, 55, 45, 7,
       77, 67, 11, 82, 60, 30, 119, 51, 127, 122, 116, 24, 96, 99, 66, 114, 6,
       65, 23, 3, 35, 87, 78, 99, 50, 41, 69, 27, 60, 123, 118, 117, 30, 75,
       102, 47, 25, 107, 114, 31, 97, 12, 49, 119, 35, 3, 80, 123, 57, 101,
       45, 110, 19, 109, 38, 24, 62, 8, 14, 56, 127, 65, 82, 58, 100, 33, 38,
       13, 9, 84, 125, 49, 36, 62, 29, 46, 7, 37, 80, 61, 25, 3, 29, 116, 93,
       10, 11, 87, 47, 116, 42, 9, 85, 37, 1, 124, 115, 53, 4, 54, 89, 80, 20,
       8, 93, 121, 42, 6, 61, 113, 7, 116, 57, 29, 7, 115, 90, 12, 62, 120,
       84, 47, 88, 81, 32, 7, 116, 19, 3, 40, 41, 48, 84, 33, 101, 25, 46, 86,
       75, 51, 119, 67, 72, 82, 74, 82, 42, 60, 123, 57, 30, 79, 120, 10, 55,
       111, 44, 10, 42, 119, 53, 25, 7, 122, 64, 24, 115, 85, 46, 70, 59, 55,
       121, 16, 81, 79, 114, 126, 81, 107, 7, 25, 114, 86, 113, 69, 63, 33,
       25, 77, 96, 112, 1, 15, 27, 82, 7, 125, 94, 116, 108, 93, 19, 24, 34,
       33, 7, 61, 84, 58, 100, 69, 101, 1, 116, 93, 14, 38, 124, 24, 13, 111,
       4, 7, 70, 43, 93, 5, 102, 19, 94, 11, 85, 48, 101, 2, 28, 5, 65, 39,
       74, 70, 36, 116, 97, 10, 59, 75, 120, 69, 16, 45, 107, 72, 10, 62, 104,
       43, 40, 69, 95, 63, 115, 84, 88, 75, 64, 34, 62, 117, 32, 78, 89, 109,
       68, 93, 12, 94, 114, 44, 25, 84, 61, 13, 25, 112, 73, 1, 34, 45, 104,
       58, 112, 125, 18, 33, 15, 45, 28, 63, 51, 11, 15, 48, 106, 41, 88, 71,
       33, 48, 104, 121, 43, 12, 48, 127, 32, 13, 73, 19, 72, 108, 94, 28, 18,
       95, 95, 89, 87, 123, 100, 44, 22, 29, 115, 102, 40, 103, 18, 8, 27, 17,
       44, 31, 11, 110, 36, 20, 24, 118, 18, 89, 76, 86, 119, 86, 44, 23, 74,
       22, 108, 115, 78, 114, 14, 69, 34, 116, 63, 53, 55, 41, 71, 32, 40, 76,
       116, 46, 93, 105, 121, 9, 46, 44, 54, 12, 89, 112, 22, 16, 25, 25, 37>>)
    @@
    (171 :> <<
       100, 102, 71, 49, 125, 52, 15, 127, 75, 105, 117, 59, 118, 86, 22, 48,
       127, 39, 41, 23, 22, 22, 17, 97, 117, 117, 110, 29, 125, 18, 106, 71,
       97, 124, 79, 31, 24, 103, 13, 23, 7, 104, 71, 77, 117, 82, 40, 10, 74,
       42, 108, 50, 100, 15, 91, 88, 61, 16, 82, 16, 66, 61, 116, 75, 55, 90,
       72, 3, 54, 92, 20, 1, 28, 46, 62, 81, 47, 112, 7, 122, 66, 114, 126,
       124, 103, 24, 38, 15, 68, 87, 53, 106, 65, 105, 52, 71, 86, 43, 122,
       78, 57, 112, 17, 76, 101, 73, 80, 21, 61, 43, 41, 110, 33, 96, 60, 30,
       107, 107, 66, 2, 89, 93, 0, 108, 57, 68, 86, 114, 6, 58, 6, 124, 100,
       126, 82, 31, 70, 73, 29, 5, 99, 75, 108, 3, 62, 67, 77, 31, 58, 6, 23,
       56, 106, 69, 62, 1, 44, 65, 56, 48, 81, 52, 0, 64, 15, 1, 118, 8, 90,
       64, 44, 106, 10, 100, 108, 44, 60, 77, 21, 59, 106, 12, 18, 102, 64,
       98, 54, 38, 2, 91, 66, 76, 122, 76, 3, 120, 65, 104, 73, 21, 30, 78,
       118, 25, 58, 39, 17, 21, 49, 103, 14, 10, 52, 9, 1, 74, 37, 37, 56,
       112, 88, 84, 29, 101, 51, 126, 51, 115, 125, 90, 126, 17, 10, 123, 80,
       124, 14, 82, 89, 94, 74, 41, 0, 5, 31, 92, 119, 121, 27, 44, 84, 9,
       108, 40, 98, 4, 3, 6, 22, 51, 48, 90, 59, 92, 3, 30, 105, 61, 49, 48,
       17, 67, 18, 56, 103, 55, 124, 37, 112, 15, 61, 81, 44, 36, 3, 49, 124,
       124, 63, 73, 14, 33, 3, 88, 37, 5, 107, 61, 3, 96, 127, 71, 66, 102,
       111, 45, 72, 112, 100, 20, 23, 118, 97, 120, 125, 107, 61, 110, 110,
       41, 7, 21, 105, 27, 48, 94, 9, 118, 27, 94, 63, 8, 44, 66, 84, 102, 43,
       11, 49, 85, 78, 83, 57, 5, 15, 26, 108, 9, 39, 125, 35, 39, 70, 8, 100,
       80, 15, 121, 104, 17, 10, 62, 105, 87, 48, 36, 29, 9, 51, 110, 46, 18,
       83, 122, 63, 2, 56, 74, 123, 52, 22, 1, 43, 74, 3, 90, 30, 36, 114, 87,
       111, 109, 74, 28, 119, 107, 43, 3, 107, 36, 93, 55, 69, 113, 47, 113,
       73, 1, 124, 42, 63, 35, 81, 42, 1, 45, 114, 9, 27, 84, 59, 2, 91, 53,
       21, 58, 42, 71, 105, 67, 35, 10, 90, 25, 23, 67, 15, 31, 69, 104, 21,
       89, 64, 71, 51, 10, 40, 81, 125, 122, 22, 25, 81, 30, 92, 107, 14, 45,
       41, 67, 109, 56, 84, 26, 33, 34, 43, 30, 93, 10, 45, 69, 39, 106, 115,
       77, 6, 66, 65, 25, 117, 10, 37, 101, 90, 47, 1, 50, 57, 105, 118, 4,
       46, 35, 56, 46, 37, 31, 35, 55, 99, 16, 119, 20, 18, 44, 117, 63, 77,
       5, 38, 23, 13, 53, 23, 75, 18, 72, 112, 9, 86, 9, 33, 80, 107, 39, 77,
       21, 10, 101, 124, 70, 103, 42, 74, 80, 69, 110, 6, 127, 2, 50, 63, 25,
       43, 91, 66, 83, 79, 46, 11, 0, 72, 127, 80, 62, 10, 73, 83, 78, 96, 55,
       110, 13, 33, 72, 85, 116, 56, 26, 109, 68, 119, 127, 106, 75, 94, 84,
       81, 43, 90, 122, 127, 40, 17, 71, 50, 97, 111, 115, 79, 42, 0, 127,
       112, 126, 75, 33, 102, 73, 108, 85, 7, 28, 53, 105, 84, 40, 3, 68, 50,
       93, 93, 84, 108, 52, 29, 118, 74, 32, 45, 116, 18, 62, 14, 92, 15, 35,
       34, 95, 62, 36, 58, 44, 9, 79, 37, 31, 116, 114, 1, 38, 12, 20, 9, 123,
       18, 107, 113, 103, 65, 123, 81, 48, 17, 13, 113, 106, 74, 75, 63, 88,
       104, 51, 114, 102, 18, 69, 68, 28, 87, 100, 18, 127, 93, 12, 46, 47,
       44, 117, 9, 93, 118, 2, 28, 42, 52, 11, 79, 70, 54, 115, 36, 81, 70,
       85, 74, 42, 42, 45, 101, 17, 117, 6, 61, 108, 91, 45, 113, 68, 57, 32,
       108, 15, 73, 14, 123, 92, 29, 90, 109, 37, 18, 50, 35, 86, 27, 80, 37,
       69, 33, 90, 14, 62, 4, 37, 46, 43, 81, 30, 65, 39, 97, 0, 50, 47, 34,
       120, 4, 93, 74, 87, 28, 54, 31, 53, 125, 16, 27, 68, 112, 46, 74, 113,
       120, 54, 124, 96, 80, 60, 3, 13, 100, 75, 67, 69, 9, 45, 12, 118, 7,
       38, 105, 28, 44, 100, 41, 81, 20, 20, 91, 90, 47, 74, 30, 12, 55, 77,
       73, 107, 83, 104, 36, 39, 3, 61, 19, 67, 115, 57, 33, 81, 52, 43, 4,
       104, 34, 95, 51, 127, 73, 36, 88, 102, 79, 104, 79, 39, 82, 12, 60, 76,
       62, 37, 14, 1, 84, 34, 126, 25, 23, 72, 98, 33, 77, 17, 24, 7, 116, 62,
       21, 34, 117, 69, 52, 35, 115, 121, 21, 44, 86, 89, 65, 102, 20, 13, 87,
       9, 23, 104, 70, 124, 20, 26, 22, 61, 0, 23, 77, 97, 125, 115, 116, 14,
       77, 75, 104, 6, 89, 32, 12, 120, 51, 93, 72, 74, 44, 91, 1, 115, 14,
       33, 42, 42, 89, 52, 6, 11, 65, 12, 39, 21, 81, 113, 61, 79, 90, 94, 14,
       104, 53, 89, 29, 43, 38, 67, 117, 110, 1, 65, 52, 69, 2, 30, 101, 14,
       104, 96, 33, 45, 78, 87, 95, 81, 124, 35, 106, 45, 69, 37, 98, 11, 34,
       10, 121, 102, 112, 11, 75, 23, 2, 98, 116, 116, 86, 47, 125, 46, 61,
       76, 5, 101, 76, 111, 64, 18, 85, 72, 98, 42, 66, 111, 92, 11, 72, 80,
       8, 115, 40, 58, 29, 18, 42, 19, 54, 79, 39, 54, 69, 122, 125, 122, 5,
       51, 53, 76, 95, 30, 39, 94, 34, 120, 36, 94, 21, 0, 94, 13, 1, 112, 64,
       66, 71, 72, 100, 82, 37, 96, 23, 89, 98, 55, 120, 23, 13, 33, 63, 101,
       116, 64, 61, 87, 102, 49, 36, 103, 51, 25, 15, 7, 55, 45, 47, 123, 98,
       119, 125, 47, 69, 95, 70, 25, 116, 42, 105, 38, 6, 81, 29, 108, 77,
       105, 53, 120, 21, 111, 100, 115, 45, 49, 90, 115, 118, 8, 117, 57, 86,
       67, 86, 21, 40, 66, 34, 24, 77, 125, 36, 79, 44, 12, 80, 99, 70, 101,
       51, 21, 28, 49, 90, 19, 117, 104, 113, 12, 83, 120, 16, 69, 48, 16, 38,
       64, 41, 68, 80, 42, 109, 3, 100, 63, 33, 11, 46, 107, 102, 16, 56, 30,
       56, 32, 58, 98, 124, 87, 127, 63, 119, 60, 53, 48, 123, 57, 70, 70, 26,
       124, 93, 54, 18, 0, 111, 66, 105, 117, 45, 61, 75, 107, 105, 97, 70,
       126, 106, 86, 115, 6, 2, 60, 113, 113, 82, 37, 114, 93, 73, 121, 17,
       106, 93, 5, 29, 82, 15, 27, 37, 122, 102, 75, 18, 120, 124, 40, 58, 84,
       115, 31, 89, 103, 127, 60, 92, 107, 99, 57, 91, 34, 7, 23, 88, 7, 52,
       29, 88, 125, 73, 16, 32, 7, 119, 112, 110, 51, 54, 121, 53, 19, 82, 19,
       79, 3, 80, 101, 22, 57, 15, 18, 71, 49, 76, 50, 63, 95, 66, 110, 52,
       32, 15, 116, 109, 125, 10, 101, 109, 84, 55, 86, 66, 0, 86, 96, 55, 31,
       94, 86, 9, 39, 121, 26, 18, 11, 22, 63, 31, 4, 106, 56, 32, 60, 123,
       52, 6, 10, 31, 43, 61, 1, 22, 22, 86, 20, 52, 74, 50, 54, 74, 93, 39,
       48, 108, 33, 110, 48, 6, 118, 123, 79, 12, 59, 25, 69, 18, 23, 34, 40,
       4, 58, 13, 21, 75, 121, 29, 62, 57, 105, 40, 121, 8, 97, 114, 59, 59,
       4, 75, 118, 60, 106, 79, 42, 55, 111, 78, 31, 118, 123, 7, 35, 54, 78,
       9, 86, 103, 28, 80, 72, 122, 112, 13, 95, 65, 88, 40, 89, 88, 101, 45,
       40, 84, 6, 108, 68, 37, 97, 94, 56, 10, 106, 100, 78, 74, 80, 118, 39,
       24, 54, 10, 43, 53, 98, 79, 8, 61, 67, 30, 61, 99, 86, 2, 26, 36, 20,
       99, 39, 121, 46, 112, 122, 58, 8, 64, 9, 48, 89, 8, 94, 48, 50, 66,
       106, 57, 99, 48, 13, 9, 24, 58, 56, 78, 19, 15, 51, 69, 68, 11, 65,
       123, 77, 29, 67, 4, 41, 78, 104, 53, 42, 53, 123, 66, 101, 41, 108, 5,
       67, 114, 50, 21, 124, 64, 116, 20, 52, 2, 21, 111, 100, 86, 13, 62, 96,
       47, 104, 69, 98, 41, 62, 12, 4, 102, 32, 3, 92, 73, 115, 27, 77, 37,
       46, 113, 66, 2, 31, 90, 66, 54, 84, 50, 65, 4, 9, 107, 75, 102, 16, 27,
       39, 16, 126, 47, 117, 3, 57, 86, 54, 74, 103, 97, 18, 38, 53, 20, 25,
       12, 101, 68, 95, 100, 110, 22, 119, 78, 34, 98, 86, 91, 57, 95, 35, 58,
       29, 48, 37, 120, 88, 112, 34, 23, 117, 72, 105, 66, 1, 4, 80, 94, 56,
       116, 34, 60, 7, 56, 11, 23, 41, 16, 1, 47, 73, 15, 27, 26, 55, 51, 111,
       81, 86, 4, 124, 123, 62, 11, 20, 85, 52, 26, 126, 126, 42, 42, 56, 65,
       123, 40, 3, 125, 8, 73, 92, 88, 60, 84, 66, 60, 38, 16, 125, 122, 28,
       91, 73, 15, 71, 58, 17, 105, 124, 102, 41, 119, 94, 73, 14, 15, 32, 75,
       84, 11, 57, 99, 5, 69, 74, 95, 77, 31, 34, 105, 106, 83, 102, 22, 70,
       25, 0, 58, 70, 101, 99, 99, 12, 32, 3, 46, 31, 34, 107, 27, 21, 109,
       53, 41, 27, 55, 87, 24, 53, 57, 72, 36, 124, 73, 54, 44, 37, 14, 35,
       86, 48, 5, 81, 50, 13, 107, 81, 20, 108, 69, 22, 109, 115, 91, 115, 74,
       107, 44, 23, 118, 62, 119, 24, 25, 124, 56, 44, 120, 68, 22, 76, 73,
       106, 99, 29, 100, 53, 24, 114, 112, 70, 29, 90, 95, 61, 3, 27, 82, 11,
       0, 101, 76, 82, 114, 111, 25, 92, 106, 102, 51, 106, 58, 81, 19, 33,
       23, 37, 86, 120, 58, 67, 10, 112, 69, 2, 86, 106, 62, 97, 0, 121, 14,
       98, 42, 13, 65, 89, 39, 53, 47, 60, 15, 89, 2, 89, 49, 56, 112, 19, 12,
       6, 46, 46, 34, 105, 62, 106, 28, 87, 60, 15, 55, 68, 86, 115, 118, 92,
       68, 90, 46, 83, 20, 77, 36, 109, 22, 1, 86, 94, 26, 13, 28, 53, 38, 27,
       74, 62, 42, 67, 71, 76, 50, 63, 62, 47, 11, 26, 88, 97, 55, 70, 2, 106,
       97, 30, 32, 77, 119, 56, 75, 98, 9, 51, 95, 7, 52, 79, 64, 12, 87, 103,
       113, 73, 65, 6, 16, 78, 113, 66, 37, 61, 125, 99, 60, 98, 108, 64, 64,
       3, 51, 43, 27, 98, 63, 105, 55, 104, 5, 0, 72, 71, 115, 43, 40, 48, 11,
       70, 29, 81, 48, 3, 110, 38, 64, 40, 41, 33, 13, 3, 108, 68, 118, 110,
       91, 44, 57, 70, 79, 113, 93, 29, 43, 61, 11, 40, 6, 32, 0, 43, 76, 90,
       93, 120, 103, 41, 64, 3, 118, 15, 82, 13, 19, 87, 100, 14, 64, 87, 92,
       114, 113, 29, 12, 19, 101, 20, 43, 105, 73, 22, 104, 26, 96, 110, 81,
       81, 70, 21, 83, 68, 70, 53, 0, 81, 90, 84, 37, 65, 74, 76, 53, 95, 112,
       81, 122, 70, 72, 63, 24, 102, 63, 1, 44, 124, 117, 91, 81, 96, 19, 33,
       87, 2, 79, 124, 38, 97, 64, 75, 108, 102, 95, 2, 115, 78, 46, 45, 55,
       50, 114, 10, 18, 105, 94, 5, 33, 75, 121, 91, 92, 76, 109, 126, 109,
       97, 10, 109, 72, 69, 116, 125, 53, 13, 122, 52, 3, 107, 54, 40, 35, 28,
       70, 99, 91, 90, 56, 87, 1, 82, 123, 61, 24, 100, 120, 112, 17, 23, 103,
       29, 56, 48, 38, 82, 119, 104, 45, 91, 45, 61, 25, 89, 109, 48, 46, 12,
       99, 31, 5, 117, 103, 52, 48, 64, 47, 26, 1, 27, 76, 41, 96, 112, 119,
       50, 96, 110, 115, 56, 62, 17, 4, 111, 120, 110, 3, 70, 46, 43, 24, 95,
       95, 7, 42, 123, 12, 5, 68, 75, 14, 44, 72, 38, 53, 114, 28, 21, 3, 106,
       95, 85, 95, 73, 83, 82, 38, 56, 68, 3, 42, 58, 0, 108, 122, 72, 29,
       109, 55, 38, 77, 28, 73, 16, 121, 30, 6, 117, 116, 19, 87, 100, 118,
       15, 120, 23, 31, 62, 111, 84, 124, 71, 91, 98, 93, 84, 112, 87, 79,
       105, 55, 71, 38, 44, 0, 23, 44, 21, 83, 42, 50, 21, 92, 102, 126, 90,
       98, 114, 64, 70, 9, 41, 74, 71, 85, 95, 119, 114, 75, 36, 42, 59, 49,
       58, 70, 16, 1, 28, 53, 38, 76, 38, 13, 19, 76, 119, 41, 12, 107, 91,
       36, 94, 108, 49, 46, 9, 88, 57, 12, 121, 14, 40, 68, 101, 115, 67, 65,
       41, 60, 120, 109, 31, 68, 84, 4, 79, 101, 11, 90, 65, 56, 24, 92, 82,
       36, 0, 60, 37, 27, 21, 59, 48, 2, 64, 25, 28, 26, 15, 54, 100, 123, 3,
       50, 114, 90, 27, 21, 24, 69, 85, 37, 78, 59, 97, 9, 7, 35, 44, 51, 82,
       103, 68, 3, 90, 75, 48, 71, 25, 55, 117, 40, 12, 107, 35, 67, 15, 93,
       98, 90, 50, 102, 126, 101, 90, 45, 0, 31, 59, 111, 9, 66, 94, 123, 82,
       125, 60, 52, 40, 73, 21, 11, 0, 83, 12, 65, 7, 7, 125, 115, 24, 78, 40,
       55, 52, 68, 10, 108, 39, 34, 90, 44, 42, 118, 65, 100, 106, 72, 75, 51,
       46, 30, 118, 9, 9, 101, 78, 67, 56, 73, 122, 45, 21, 104, 89, 25, 98,
       110, 70, 21, 109, 60, 31, 37, 3, 125, 0, 77, 93, 66, 51, 105, 33, 8,
       112, 107, 51, 42, 111, 40, 0, 54, 29, 122, 64, 101, 111, 103, 28, 27,
       119, 16, 57, 45, 19, 106, 77, 40, 9, 48, 22, 17, 74, 33, 27, 60, 124,
       28, 36, 97, 96, 92, 66, 73, 4, 76, 120, 71, 4, 93, 4, 59, 117, 0, 114,
       56, 8, 3, 122, 83, 75, 15, 26, 21, 109, 95, 86, 36, 18, 120, 60, 69,
       70, 86, 70, 92, 81, 59, 54, 1, 120, 99, 83, 11, 35, 8, 121, 12, 99, 65,
       36, 77, 29, 126, 43, 17, 74, 97, 84, 67, 91, 38, 91, 105, 100, 39, 92,
       10, 26, 81, 19, 11, 112, 24, 20, 127, 57, 11, 43, 52, 8, 49, 57, 110,
       67, 120, 89, 106, 84, 65, 98, 53, 33, 72, 89, 10, 67, 11, 86, 124, 88,
       117, 11, 15, 91, 63, 120, 119, 48, 42, 15, 57, 97, 34, 15, 7, 20, 124,
       35, 117, 80, 119, 8, 9, 56, 120, 127, 109, 101, 98, 2, 66, 11, 106, 64,
       83, 105, 46, 49, 125, 76, 94, 0, 1, 31, 22, 86, 38, 56, 101, 84, 94,
       49, 72, 118, 23, 70, 72, 19, 83, 126, 59, 60, 63, 44, 49, 40, 16, 114,
       115, 27, 15, 126, 111, 48, 17, 89, 45, 90, 44, 36, 3, 42, 31, 62, 111,
       100, 95, 35, 69, 63, 110, 101, 9, 127, 49, 41, 91, 18, 13, 65, 108, 28,
       24, 114, 40, 115, 58, 48, 80, 84, 124, 55, 8, 126, 35, 91, 1, 87, 106,
       83, 96, 77, 54, 21, 110, 15, 108, 69, 75, 95, 50, 25, 88, 17, 34, 32,
       72, 66, 94, 67, 3, 125, 26, 22, 86, 25, 88, 43, 76, 4, 45, 3, 50, 53,
       57, 124, 10, 4, 23, 62, 92, 23, 97, 26, 117, 39, 107, 84, 34, 30, 53,
       68, 9, 80, 80, 50, 108, 66, 120, 52, 70, 24, 18, 78, 121, 123, 126,
       124, 97, 72, 122, 68, 67, 47, 110, 55, 118, 75, 14, 59, 1, 29, 38, 99,
       64, 17, 88, 68, 95, 76, 81, 43, 79, 120, 37, 73, 63, 25, 3, 12, 8, 55,
       1, 47, 122, 1, 35, 58, 34, 65, 8, 111, 76, 39, 41, 2, 108, 72, 31, 101,
       17, 117, 83, 87, 99, 71, 39, 58, 111, 79, 35, 96, 19, 11, 51, 52, 22,
       68, 66, 125, 97, 113, 32, 47, 85, 86, 114, 44, 33, 106, 102, 51, 102,
       58, 74, 14, 91, 28, 106, 125, 9, 119, 19, 107, 19, 30, 56, 45, 87, 94,
       42, 88, 99, 67, 42, 7, 62, 74, 93, 46, 66, 64, 49, 89, 114, 51, 49, 91,
       2, 39, 6, 73, 27, 54, 16, 65, 86, 12, 39, 114, 0, 80, 42, 37, 60, 76,
       33, 95, 96, 48, 120, 72, 59, 109, 64, 123, 123, 17, 40, 37, 116, 58,
       124, 60, 7, 14, 13, 103, 81, 37, 101, 81, 44, 8, 56, 40, 87, 40, 29,
       98, 120, 52, 11, 55, 17, 16, 118, 64, 39, 113, 45, 74, 123, 28, 29,
       123, 70, 64, 73, 93, 37, 29, 93, 51, 123, 104, 11, 57, 52, 107, 5, 52,
       115, 120, 2, 3, 24, 33, 92, 4, 81, 127, 43, 118, 86, 44, 16, 105, 127,
       37, 42, 81, 117, 67, 76, 23, 96, 97, 90, 75, 98, 46, 53, 83, 65, 90,
       55, 49, 65, 3, 75, 70, 16, 22, 11, 99, 90, 75, 98, 81, 65, 71, 97, 12,
       32, 119, 63, 69, 119, 62, 49, 72, 35, 96, 27, 112, 31, 57, 23, 89, 98,
       10, 54, 13, 38, 1, 69, 96, 42, 68, 126, 111, 96, 83, 126, 73, 60, 123,
       125, 81, 13, 80, 7, 77, 94, 30, 28, 53, 105, 126, 79, 10, 92, 61, 115,
       113, 29, 93, 57, 115, 113, 42, 31, 13, 9, 40, 10, 63, 38, 41, 69, 28,
       126, 86, 27, 25, 64, 30, 113, 78, 78, 43, 57, 38, 89, 75, 104, 125, 24,
       22, 21, 67, 108, 60, 60, 51, 55, 108, 30, 29, 17, 14, 45, 119, 15, 110,
       20, 2, 88, 0, 24, 119, 126, 0, 17, 75, 37, 123, 83, 52, 44, 116, 116,
       47, 17, 87, 17, 124, 12, 103, 94, 15, 122, 97, 124, 88, 12, 127, 27,
       127, 40, 41, 24, 97, 23, 13, 35, 30, 66, 44, 97, 101, 127, 5, 26, 101,
       64, 62, 44, 78, 108, 90, 98, 56, 102, 8, 45, 15, 10, 105, 93, 73, 77,
       115, 58, 23, 3, 56, 122, 19, 72, 48, 89, 86, 10, 89, 126, 47, 126, 1,
       23, 88, 108, 70, 39, 78, 97, 73, 102, 69, 80, 57, 21, 39, 52, 82, 20,
       45, 9, 115, 106, 100, 82, 41, 26, 36, 3, 34, 96, 122, 6, 40, 88, 78,
       36, 40, 29, 16, 60, 102, 104, 79, 55, 116, 73, 65, 15, 82, 24, 19, 8,
       74, 0, 18, 83, 13, 81, 49, 20, 47, 52, 54, 73, 41, 108, 52, 71, 124,
       115, 24, 123, 64, 6, 45, 24, 77, 20, 10, 1, 29, 37, 68, 53, 115, 7, 0,
       12, 102, 100, 37, 40, 86, 86, 0, 118, 72, 38, 114, 22, 7, 91, 52, 22,
       57, 78, 113, 1, 106, 125, 23, 119, 106, 106, 34, 15, 104, 40, 111, 113,
       61, 24, 119, 114, 68, 18, 56, 57, 18, 14, 119, 17, 26, 8, 90, 69, 8,
       46, 60, 56, 14, 114, 86, 31, 101, 107, 73, 18, 89, 9, 70, 50, 110, 110,
       12, 81, 71, 111, 100, 92, 38, 63, 10, 5, 66, 62, 100, 5, 121, 16, 124,
       53, 69, 108, 104, 110, 7, 13, 121, 38, 15, 102, 77, 106, 80, 124, 98,
       70, 104, 24, 7, 109, 67, 79, 4, 24, 113, 54, 118, 15, 18, 69, 110, 64,
       57, 93, 47, 112, 105, 64, 25, 61, 51, 89, 78, 111, 94, 74, 113, 43,
       115, 117, 44, 60, 47, 64, 3, 126, 118, 65, 126, 104, 39, 119, 8, 56,
       70, 62, 108, 11, 99, 113, 86, 66, 41, 103, 127, 10, 104, 56, 13, 116,
       46, 54, 89, 53, 13, 117, 69, 99, 71, 48, 6, 118, 25, 6, 3, 19, 83, 113,
       74, 58, 80, 42, 100, 67, 79, 94, 110, 126, 92, 11, 121, 16, 125, 64,
       28, 5, 4, 35, 37, 99, 27, 96, 27, 88, 3, 73, 71, 91, 119, 96, 116, 85,
       11, 44, 13, 16, 37, 94, 45, 122, 29, 41, 109, 102, 44, 105, 45, 41, 56,
       104, 21, 95, 43, 21, 69, 12, 40, 2, 102, 37, 80, 59, 44, 34, 3, 101,
       12, 4, 15, 7, 54, 0, 17, 106, 98, 73, 34, 75, 86, 65, 26, 27, 75, 39,
       7, 57, 46, 94, 127, 38, 20, 75, 98, 100, 85, 78, 25, 112, 23, 105, 67,
       84, 58, 44, 40, 115, 28, 55, 39, 63, 114, 56, 25, 64, 5, 78, 8, 39, 34,
       13, 62, 73, 0, 103, 66, 71, 37, 98, 110, 64, 8, 91, 59, 13, 89, 61,
       101, 91, 124, 85, 43, 39, 38, 14, 54, 125, 110, 91, 75, 34, 104, 1, 5,
       11, 107, 55, 121, 4, 82, 82, 81, 31, 68, 58, 15, 72, 27, 45, 104, 50,
       16, 69, 94, 37, 14, 94, 17, 64, 92, 4, 102, 105, 13, 90, 76, 121, 121,
       81, 64, 43, 103, 33, 67, 41, 6, 53, 22, 122, 99, 127, 42, 40, 113, 98,
       17, 20, 117, 105, 79, 47, 22, 6, 99, 6, 42, 94, 117, 5, 66, 85, 78,
       114, 15, 118, 29, 82, 127, 54, 112, 114, 89, 44, 104, 58, 93, 124, 106,
       7, 39, 112, 122, 24, 57, 63, 46, 47, 96, 47, 69, 79, 59, 18, 109, 39,
       22, 45, 123, 118, 64, 77, 88, 125, 39, 29, 18, 82, 87, 87, 64, 6, 75,
       80, 65, 18, 4, 4, 32, 91, 89, 58, 71, 10, 47, 28, 94, 7, 50, 15, 125,
       12, 79, 5, 85, 100, 32, 32, 10, 103, 112, 39, 89, 92, 8, 90, 76, 14,
       87, 68, 65, 109, 56, 92, 97, 14, 95, 36, 43, 85, 95, 40, 82, 35, 54,
       64, 71, 20, 56, 63, 88, 87, 7, 31, 111, 44, 93, 16, 46, 65, 85, 68, 80,
       105, 125, 109, 106, 31, 22, 18, 3, 78, 65, 33, 3, 103, 43, 90, 56, 120,
       54, 36, 119, 32, 68, 123, 80, 14, 95, 51, 22, 123, 113, 124, 124, 96,
       29, 28, 42, 20, 112, 110, 28, 81, 43, 53, 18, 86, 83, 8, 100, 82, 121,
       63, 111, 91, 67, 20, 71, 54, 70, 110, 48, 6, 48, 85, 76, 3, 62, 123,
       30, 88, 110, 24, 34, 52, 49, 118, 90, 64, 69, 15, 64, 27, 127, 91, 52,
       77, 73, 15, 16, 70, 46, 10, 41, 39, 26, 110, 81, 117, 114, 27, 54, 5,
       65, 126, 17, 78, 35, 80, 91, 17, 91, 30, 74, 18, 105, 91, 123, 127, 12,
       37, 52, 21, 64, 98, 75, 125, 18, 113, 5, 16, 37, 28, 11, 96, 20, 89,
       112, 8, 58, 18, 96, 6, 61, 56, 108, 44, 91, 9, 30, 32, 123, 103, 33,
       117, 104, 51, 99, 49, 44, 118, 109, 24, 73, 106, 106, 119, 120, 112,
       79, 109, 99, 23, 19, 55, 5, 49, 112, 116, 61, 9, 11, 108, 86, 65, 68,
       104, 63, 85, 87, 125, 60, 124, 112, 103, 101, 64, 115, 98, 83, 38, 73,
       113, 67, 121, 97, 12, 61, 38, 38, 104, 88, 21, 96, 49, 96, 56, 49, 111,
       59, 17, 111, 4, 21, 68, 114, 36, 121, 50, 84, 0, 109, 127, 14, 42, 115,
       47, 83, 96, 82, 62, 95, 78, 123, 80, 96, 10, 43, 6, 77, 43, 115, 17,
       88, 42, 93, 108, 125, 101, 0, 66, 90, 12, 31, 111, 77, 86, 39, 18, 46,
       95, 45, 31, 25, 9, 92, 32, 47, 75, 22, 113, 22, 56, 10, 125, 53, 120,
       64, 10, 99, 74, 79, 27, 88, 77, 45, 119, 76, 15, 72, 9, 16, 17, 19,
       102, 110, 101, 72, 40, 81, 66, 10, 46, 0, 13, 42, 126, 63, 99, 70, 62,
       35, 96, 124, 49, 68, 81, 113, 21, 84, 88, 123, 7, 112, 92, 45, 33, 123,
       121, 58, 97, 71, 7, 56, 48, 55, 47, 58, 60, 26, 63, 79, 125, 13, 65,
       36, 93, 97, 2, 54, 19, 84, 36, 107, 8, 28, 8, 11, 16, 21, 9, 52, 7,
       109, 61, 110, 26, 38, 52, 92, 64, 40, 82, 32, 58, 37, 93, 94, 47, 31,
       117, 33, 9, 16, 8, 51, 70, 36, 92, 32, 6, 92, 119, 123, 16, 95, 50,
       121, 21, 11, 86, 15, 97, 119, 2, 124, 110, 119, 66, 34, 0, 108, 117,
       16, 126, 119, 67, 112, 61, 121, 0, 49, 19, 124, 32, 60, 21, 115, 26,
       65, 69, 59, 25, 26, 17, 52, 16, 85, 74, 60, 13, 107, 28, 26, 53, 75,
       14, 60, 3, 20, 54, 35, 58, 56, 85, 69, 48, 100, 125, 124, 109, 9, 56,
       11, 5, 60, 11, 32, 101, 84, 61, 104, 101, 39, 53, 95, 118, 81, 125, 33,
       42, 47, 29, 17, 119, 32, 34, 62, 112, 109, 9, 30, 77, 72, 78, 5, 92,
       57, 72, 33, 89, 94, 42, 28, 91, 116, 100, 40, 46, 33, 79, 61, 37, 57,
       46, 53, 56, 0, 84, 57, 38, 64, 69, 17, 88, 94, 116, 74, 84, 115, 5, 25,
       96, 84, 101, 63, 124, 24, 110, 47, 37, 80, 58, 83, 117, 6, 98, 70, 102,
       44, 57, 75, 124, 44, 57, 7, 18, 55, 19, 75, 46, 119, 2, 37, 68, 95, 71,
       10, 67, 72, 55, 11, 96, 125, 10, 3, 48, 106, 20, 126, 66, 81, 80, 18,
       121, 96, 18, 121, 7, 29, 98, 66, 6, 11, 127, 19, 74, 25, 99, 113, 15,
       18, 3, 69, 105, 70, 50, 87, 94, 10, 53, 58, 110, 52, 87, 101, 40, 92,
       121, 102, 17, 60, 16, 21, 86, 23, 11, 99, 96, 35, 32, 0, 82, 91, 47,
       122, 122, 80, 93, 45, 50, 58, 79, 0, 40, 71, 98, 81, 105, 37, 80, 49,
       7, 0, 73, 99, 56, 53, 37, 93, 5, 41, 76, 64, 12, 67, 1, 33, 77, 46, 14,
       88, 39, 78, 69, 42, 13, 40, 118, 60, 79, 49, 41, 59, 93, 90, 124, 84,
       70, 115, 51, 66, 84, 69, 126, 6, 69, 84, 41, 104, 93, 58, 90, 100, 51,
       14, 76, 82, 62, 124, 126, 18, 98, 95, 73, 31, 97, 49, 46, 14, 97, 10,
       42, 19, 108, 124, 109, 97, 45, 57, 88, 75, 7, 127, 18, 2, 75, 69, 89,
       110, 121, 5, 81, 79, 18, 17, 8, 125, 77, 28, 88, 1, 14, 24, 118, 18,
       37, 126, 8, 14, 90, 116, 124, 41, 101, 63, 125, 113, 14, 111, 37, 31,
       82, 93, 86, 39, 59, 73, 94, 32, 85, 47, 69, 113, 126, 65, 103, 51, 91,
       92, 46, 24, 111, 127, 4, 22, 54, 72, 53, 125, 113, 104, 40, 98, 64, 54,
       42, 35, 22, 73, 21, 122, 14, 4, 110, 21, 75, 14, 109, 27, 106, 113, 65,
       31, 42, 84, 39, 24, 48, 76, 124, 125, 79, 37, 115, 53, 64, 17, 75, 68,
       117, 73, 82, 35, 13, 52, 49, 67, 109, 122, 84, 43, 41, 8, 27, 94, 47,
       90, 92, 17, 14, 23, 93, 39, 13, 93, 29, 87, 86, 14, 6, 125, 17, 112,
       122, 49, 4, 99, 113, 127, 127, 67, 97, 23, 104, 121, 65, 98, 79, 97,
       75, 41, 0, 32, 79, 29, 83, 27, 43, 29, 15, 16, 2, 86, 84, 34, 111, 106,
       88, 103, 71, 71, 98, 66, 96, 76, 94, 18, 53, 44, 28, 90, 110, 2, 110,
       68, 50, 44, 89, 57, 98, 6, 24, 111, 68, 43, 82, 50, 20, 0, 83, 99, 33,
       12, 34, 40, 117, 11, 63, 51, 115, 21, 29, 108, 114, 7, 102, 23, 116,
       77, 117, 52, 33, 32, 78, 31, 37, 0, 90, 108, 20, 4, 43, 71, 1, 11, 111,
       55, 88, 26, 95, 30, 16, 34, 22, 13, 35, 30, 3, 43, 17, 95, 42, 53, 24,
       107, 43, 75, 27, 57, 9, 65, 9, 10, 115, 102, 19, 3, 51, 55, 95, 62, 22,
       11, 108, 44, 9, 37, 20, 30, 95, 125, 23, 39, 106, 58, 84, 33, 111, 117,
       94, 104, 28, 28, 72, 54, 89, 84, 65, 80, 11, 59, 20, 27, 95, 81, 0, 15,
       70, 85, 37, 17, 114, 124, 77, 72, 26, 15, 101, 56, 88, 85, 80, 47, 127,
       99, 90, 106, 100, 109, 46, 45, 88, 95, 83, 79, 108, 88, 51, 57, 75, 62,
       45, 19, 125, 107, 2, 48, 34, 66, 102, 53, 60, 11, 0, 51, 102, 59, 83,
       119, 20, 16, 65, 25, 127, 105, 57, 110, 95, 64, 125, 125, 24, 30, 120,
       54, 45, 28, 74, 93, 52, 4, 113, 5, 110, 35, 29, 51, 54, 49, 20, 28, 82,
       58, 114, 88, 77, 84, 116, 68, 5, 54, 13, 24, 110, 115, 107, 47, 11, 99,
       57, 82, 13, 82, 55, 48, 85, 121, 17, 22, 95, 91, 119, 47, 69, 96, 103,
       127, 85, 37, 30, 69, 108, 76, 70, 107, 60, 117, 67, 44, 14, 42, 112,
       30, 32, 120, 76, 76, 31, 90, 84, 39, 77, 11, 24, 79, 69, 105, 7, 107,
       22, 114, 120, 81, 116, 116, 34, 19, 28, 7, 117, 6, 1, 69, 124, 85, 65,
       22, 107, 90, 93, 28, 68, 32, 49, 0, 126, 96, 109, 73, 102, 120, 125,
       55, 96, 106, 106, 95, 26, 99, 3, 54, 74, 54, 14, 61, 92, 36, 83, 11,
       58, 0, 113, 124, 21, 116, 14, 97, 62, 25, 26, 70, 121, 122, 122, 65,
       116, 91, 93, 65, 14, 82, 109, 50, 86, 126, 54, 61, 76, 41, 104, 80, 83,
       100, 22, 22, 115, 56, 22, 14, 12, 8, 119, 98, 126, 60, 42, 42, 118, 92,
       15, 11, 61, 92, 108, 18, 57, 102, 87, 84, 59, 29, 52, 71, 53, 85, 21,
       36, 80, 113, 99, 120, 85, 58, 18, 104, 119, 59, 86, 96, 99, 86, 105,
       78, 49, 23, 23, 16, 114, 59, 101, 19, 102, 85, 98, 54, 105, 6, 51, 108,
       104, 57, 56, 2, 72, 32, 92, 98, 40, 9, 25, 65, 79, 28, 1, 27, 48, 36,
       101, 99, 101, 86, 39, 32, 103, 22, 40, 61, 56, 25, 109, 4, 32, 102, 96,
       71, 112, 34, 112, 59, 49, 75, 45, 120, 67, 109, 105, 74, 126, 76, 6,
       86, 62, 86, 104, 64, 63, 104, 109, 126, 60, 11, 27, 5, 33, 52, 92, 57,
       108, 68, 79, 61, 0, 5, 89, 33, 52, 11, 65, 50, 30, 36, 122, 122, 59,
       82, 29, 124, 21, 8, 26, 99, 31, 60, 111, 38, 60, 15, 44, 18, 64, 90,
       39, 37, 35, 9, 11, 96, 16, 45, 93, 42, 127, 103, 111, 42, 46, 43, 22,
       81, 104, 39, 40, 20, 86, 1, 104, 95, 101, 21, 22, 127, 43, 99, 54, 23,
       57, 64, 125, 104, 36, 30, 102, 25, 37, 119, 111, 33, 7, 66, 49, 124,
       79, 52, 96, 3, 113, 107, 34, 69, 39, 115, 45, 14, 97, 30, 4, 74, 53,
       116, 112, 34, 3, 19, 127, 18, 80, 90, 62, 75, 123, 72, 112, 78, 4, 41,
       99, 74, 19, 25, 115, 89, 27, 91, 0, 99, 28, 74, 52, 116, 94, 72, 111,
       24, 1, 71, 82, 8, 66, 72, 97, 67, 109, 38, 17, 122, 47, 43, 85, 18, 37,
       31, 38, 16, 47, 34, 2, 106, 41, 73, 66, 78, 39, 62, 39, 60, 54, 83,
       118, 0, 7, 40, 89, 71, 38, 28, 59, 12, 83, 63, 28, 34, 52, 52, 54, 19,
       58, 59, 35, 55, 69, 40, 117, 124, 105, 25, 60, 10, 24, 98, 105, 11, 68,
       62, 74, 75, 97, 91, 126, 83, 56, 3, 125, 25, 33, 64, 6, 52, 31, 32,
       118, 119, 107, 78, 8, 56, 15, 101, 12, 64, 34, 56, 92, 87, 41, 110, 18,
       125, 123, 2, 30, 20, 67, 118, 61, 30, 57, 76, 64, 96, 58, 85, 114, 101,
       126, 70, 70, 20, 80, 13, 105, 38, 4, 37, 112, 37, 6, 13, 125, 89, 49,
       92, 95, 97, 47, 114, 33, 73, 92, 50, 119, 109, 100, 83, 87, 120, 67,
       40, 56, 111, 82, 50, 86, 81, 97, 0, 86, 0, 95, 92, 91, 14, 124, 121,
       51, 76, 36, 88, 84, 46, 46, 72, 20, 96, 35, 46, 55, 34, 41, 77, 20, 54,
       102, 67, 26, 82, 49, 39, 73, 49, 103, 17, 119, 57, 21, 73, 86, 40, 60,
       87, 4, 55, 120, 58, 102, 88, 9, 99, 94, 54, 126, 52, 9, 0, 7, 69, 105,
       80, 69, 58, 15, 97, 66, 105, 8, 82, 87, 98, 118, 3, 89, 19, 98, 105,
       63, 39, 3, 49, 44, 100, 14, 58, 42, 54, 101, 28, 67, 90, 80, 109, 77,
       79, 50, 23, 11, 82, 77, 49, 22, 119, 48, 73, 43, 42, 2, 27, 76, 55,
       124, 113, 126, 28, 16, 78, 3, 34, 59, 89, 53, 81, 53, 44, 32, 51, 60,
       114, 123, 60, 71, 121, 82, 17, 76, 19, 15, 73, 36, 114, 44, 113, 78,
       73, 16, 28, 116, 104, 40, 84, 25, 93, 119, 118, 97, 95, 15, 43, 96, 8,
       45, 97, 16, 112, 4, 44, 106, 45, 17, 95, 115, 34, 87, 86, 28, 24, 28,
       48, 89, 24, 105, 75, 63, 121, 73, 65, 61, 15, 108, 58, 76, 126, 86, 46,
       24, 71, 77, 17, 83, 37, 37, 111, 17, 105, 79, 42, 95, 34, 69, 79, 37,
       111, 95, 66, 44, 60, 95, 93, 17, 38, 79, 77, 32, 93, 21, 91, 25, 117,
       15, 43, 114, 73, 77, 76, 86, 22, 90, 124, 117, 60, 106, 106, 21, 61,
       45, 75, 19, 63, 90, 9, 117, 115, 64, 40, 93, 14, 3, 90, 19, 67, 74, 37,
       64, 59, 122, 67, 80, 74, 87, 88, 44, 56, 52, 70, 29, 39, 5, 118, 18,
       37, 119, 34, 101, 109, 125, 86, 60, 61, 30, 30, 122, 106, 102, 62, 20,
       52, 38, 24, 4, 96, 82, 5, 45, 26, 6, 19, 79, 101, 23, 91, 13, 84, 21,
       85, 26, 33, 75, 100, 55, 112, 9, 90, 108, 69, 67, 11, 125, 121, 69, 74,
       105, 7, 106, 7, 111, 28, 25, 12, 3, 64, 19, 1, 116, 9, 24, 23, 127,
       114, 80, 21, 64, 18, 80, 17, 29, 97, 1, 25, 117, 118, 118, 121, 71, 30,
       117, 98, 49, 24, 14, 100, 43, 52, 41, 35, 106, 107, 36, 90, 98, 2, 90,
       102, 67, 100, 9, 101, 75, 89, 58, 108, 51, 119, 2, 6, 84, 56, 35, 80,
       107, 24, 69, 97, 93, 16, 68, 47, 62, 53, 17, 104, 38, 54, 127, 82, 119,
       72, 88, 97, 89, 108, 88, 42, 103, 90, 88, 39, 16, 18, 35, 91, 27, 91,
       17, 107, 24, 96, 90, 79, 23, 34, 23, 94, 66, 98, 26, 46, 14, 86, 19,
       116, 53, 22, 42, 117, 76, 2, 7, 28, 85, 71, 27, 6, 25, 57, 18, 76, 88,
       19, 3, 49, 87, 14, 38, 31, 6, 102, 80, 22, 91, 74, 122, 41, 42, 86, 20,
       61, 43, 87, 105, 0, 81, 3, 112, 114, 68, 125, 99, 79, 77, 110, 26, 22,
       27, 126, 33, 101, 87, 84, 50, 120, 44, 8, 17, 1, 44, 73, 127, 94, 105,
       71, 43, 119, 119, 38, 90, 25, 60, 44, 36, 3, 15, 95, 85, 18, 127, 34,
       119, 14, 122, 56, 31, 66, 70, 62, 110, 53, 117, 100, 16, 98, 88, 75,
       54, 0, 97, 20, 69, 99, 119, 102, 59, 26, 101, 105, 32, 35, 66, 121, 64,
       59, 49, 23, 31, 104, 117, 29, 112, 100, 54, 113, 15, 35, 107, 42, 37,
       125, 65, 45, 99, 78, 113, 75, 61, 125, 112, 116, 83, 30, 86, 61, 68,
       122, 107, 83, 117, 14, 4, 23, 107, 0, 76, 93, 12, 13, 73, 38, 51, 110,
       114, 119, 36, 9, 94, 85, 76, 32, 19, 59, 9, 126, 93, 32, 68, 0, 121, 4,
       101, 97, 11, 23, 60, 13, 62, 108, 56, 120, 38, 37, 89, 22, 46, 47, 27,
       73, 94, 84, 119, 112, 75, 47, 65, 59, 105, 18, 114, 120, 70, 115, 33,
       55, 42, 115, 5, 83, 38, 24, 85, 122, 118, 86, 118, 51, 92, 89, 58, 50,
       82, 13, 115, 20, 12, 15, 20, 71, 59, 71, 111, 111, 73, 49, 38, 24, 90,
       125, 104, 58, 123, 124, 120, 9, 126, 104, 31, 44, 87, 51, 6, 26, 0, 47,
       103, 3, 12, 120, 71, 7, 76, 20, 93, 114, 8, 107, 57, 14, 110, 23, 99,
       98, 4, 1, 63, 69, 97, 101, 8, 87, 3, 30, 105, 25, 125, 74, 53, 15, 60,
       114, 5, 62, 124, 119, 58, 115, 80, 106, 56, 80, 94, 71, 44, 88, 102, 6,
       14, 88, 18, 80, 1, 0, 122, 45, 36, 5, 55, 38, 64, 125, 37, 12, 81, 85,
       27, 74, 116, 30, 77, 81, 35, 33, 99, 47, 11, 72, 67, 3, 78, 41, 107,
       118, 115, 107, 8, 88, 36, 80, 46, 35, 60, 56, 126, 35, 35, 60, 83, 17,
       42, 55, 111, 89, 89, 73, 54, 21, 32, 10, 77, 58, 117, 90, 24, 73, 97,
       46, 73, 30, 7, 100, 52, 1, 2, 19, 72, 4, 82, 80, 84, 5, 114, 30, 109,
       126, 102, 3, 28, 80, 49, 114, 106, 68, 39, 97, 124, 108, 82, 77, 67,
       115, 110, 13, 56, 89, 12, 114, 15, 41, 11, 116, 43, 96, 27, 81, 87, 56,
       119, 73, 82, 117, 110, 20, 107, 15, 75, 75, 2, 4, 104, 11, 91, 59, 78,
       122, 27, 5, 97, 25, 11, 59, 125, 82, 48, 43, 42, 54, 102, 124, 53, 126,
       38, 56, 13, 15, 97, 5, 13, 86, 46, 44, 15, 111, 73, 31, 99, 104, 45,
       15, 42, 109, 71, 72, 14, 108, 111, 28, 103, 53, 73, 61, 45, 10, 28, 26,
       69, 11, 111, 50, 52, 17, 49, 88, 50, 24, 7, 83, 95, 6, 85, 93, 61, 70,
       125, 87, 57, 58, 86, 73, 82, 27, 118, 39, 69, 29, 5, 121, 114, 30, 21,
       113, 13, 127, 92, 49, 101, 66, 12, 75, 96, 31, 16, 108, 126, 79, 3, 49,
       14, 78, 88, 62, 102, 92, 15, 37, 116, 71, 105, 2, 57, 97, 69, 34, 1,
       69, 50, 91, 111, 7, 19, 95, 124, 112, 18, 126, 74, 30, 109, 16, 68,
       113, 70, 83, 73, 44, 2, 81, 25, 10, 70, 36, 32, 121, 126, 29, 104, 112,
       53, 15, 60, 63, 25, 53, 32, 9, 11, 72, 109, 14, 120, 76, 13, 44, 81,
       43, 73, 123, 95, 65, 58, 45, 73, 7, 72, 114, 62, 57, 53, 25, 40, 40,
       81, 100, 49, 104, 6, 70, 120, 42, 19, 28, 12, 94, 75, 109, 91, 36, 65,
       9, 58, 94, 2, 21, 2, 102, 84, 63, 118, 41, 86, 100, 56, 103, 88, 98,
       18, 69, 16, 90, 31, 74, 80, 74, 34, 77, 41, 88, 21, 85, 1, 34, 32, 34,
       29, 52, 93, 2, 8, 107, 57, 116, 124, 8, 75, 58, 55, 31, 91, 77, 55, 13,
       61, 63, 112, 11, 65, 79, 54, 97, 115, 121, 125, 103, 3, 34, 10, 11, 21,
       85, 87, 120, 35, 15, 13, 59, 14, 90, 55, 78, 35, 39, 25, 48, 6, 68, 7,
       93, 126, 23, 116, 4, 73, 50, 125, 18, 8, 37, 30, 26, 119, 39, 14, 22,
       35, 10, 50, 50, 88, 1, 57, 58, 121, 53, 76, 32, 6, 82, 108, 55, 31,
       124, 13, 58, 43, 123, 90, 122, 50, 7, 16, 113, 121, 77, 120, 107, 94,
       79, 74, 125, 1, 3, 102, 99, 43, 123, 50, 14, 60, 87, 40, 123, 118, 69,
       116, 19, 107, 90, 82, 47, 23, 35, 55, 118, 115, 116, 101, 111, 41, 86,
       122, 77, 67, 44, 66, 127, 72, 103, 127, 9, 64, 4, 30, 21, 57, 100, 116,
       36, 94, 75, 105, 85, 2, 56, 77, 85, 85, 105, 55, 18, 122, 7, 12, 6, 88,
       100, 40, 121, 15, 123, 62, 43, 47, 42, 0, 34, 127, 30, 127, 85, 29,
       102, 23, 96, 88, 75, 62, 14, 82, 23, 119, 77, 78, 122, 104, 3, 127,
       112, 58, 78, 127, 127, 99, 81, 14, 94, 19, 125, 35, 106, 29, 96, 58,
       44, 16, 73, 59, 35, 77, 10, 106, 63, 54, 112, 72, 18, 35, 33, 46, 50,
       1, 61, 76, 45, 105, 119, 114, 101, 49, 53, 112, 54, 86, 87, 113, 36,
       76, 98, 91, 73, 16, 33, 92, 10, 102, 39, 88, 93, 37, 101, 87, 103, 89,
       95, 87, 92, 24, 84, 63, 81, 70, 42, 32, 86, 95, 110, 84, 88, 90, 25,
       89, 5, 123, 106, 17, 9, 105, 86, 61, 84, 76, 126, 6, 98, 48, 111, 125,
       91, 11, 8, 64, 17, 86, 101, 65, 69, 20, 105, 124, 80, 74, 42, 103, 50,
       120, 43, 99, 71, 90, 93, 51, 69, 17, 109, 66, 65, 3, 91, 67, 2, 121,
       25, 8, 51, 95, 24, 60, 10, 107, 20, 32, 5, 80, 0, 14, 109, 114, 120,
       19, 76, 65, 10, 66, 108, 45, 4, 108, 117, 12, 48, 86, 53, 17, 40, 73,
       84, 125, 37, 78, 31, 8, 35, 82, 127, 7, 118, 84, 99, 110, 90, 68, 101,
       97, 81, 26, 48, 17, 29, 66, 103, 3, 100, 45, 56, 83, 122, 23, 60, 51,
       110, 64, 4, 110, 30, 44, 18, 73, 106, 113, 29, 4, 94, 72, 112, 14, 29,
       119, 2, 122, 8, 82, 26, 45, 23, 40, 6, 108, 78, 122, 61, 75, 69, 48,
       85, 9, 34, 6, 85, 79, 118, 54, 57, 51, 94, 57, 52, 98, 26, 124, 82, 61,
       96, 61, 8, 53, 125, 19, 127, 92, 102, 96, 119, 53, 70, 124, 33, 43, 5,
       50, 29, 112, 24, 82, 52, 35, 105, 110, 6, 32, 114, 37, 105, 54, 46,
       121, 60, 86, 76, 93, 68, 2, 124, 116, 61, 122, 109, 58, 79, 8, 79, 119,
       69, 88, 90, 25, 33, 47, 37, 2, 117, 125, 43, 8, 116, 1, 32, 36, 80, 20,
       89, 8, 54, 10, 33, 37, 34, 70, 95, 5, 28, 49, 75, 50, 17, 19, 35, 8,
       58, 112, 36, 55, 69, 125, 8, 21, 107, 71, 114, 71, 80, 67, 81, 13, 93,
       73, 20, 43, 117, 92, 64, 25, 94, 92, 113, 56, 31, 83, 61, 42, 83, 102,
       48, 106, 31, 26, 96, 39, 84, 21, 122, 34, 88, 121, 113, 104, 58, 73,
       50, 119, 14, 36, 28, 62, 52, 40, 23, 31, 95, 55, 63, 65, 45, 11, 81,
       89, 51, 29, 92, 4, 46, 64, 108, 30, 87, 64, 56, 44, 123, 126, 45, 30,
       52, 113, 33, 47, 74, 37, 69, 6, 113, 60, 2, 59, 81, 41, 80, 75, 78, 59,
       33, 91, 50, 51, 30, 5, 21, 66, 79, 28, 68, 57, 110, 107, 42, 20, 3,
       107, 5, 119, 93, 37, 113, 69, 21, 110, 76, 40, 15, 19, 88, 103, 47, 30,
       3, 29, 33, 77, 106, 35, 8, 124, 82, 17, 73, 52, 114, 73, 35, 93, 45,
       126, 30, 85, 87, 65, 97, 93, 16, 90, 29, 31, 105, 39, 94, 83, 108, 49,
       67, 73, 82, 125, 69, 90, 55, 118, 22, 58, 72, 102, 66, 38, 79, 60, 32,
       67, 55, 55, 111, 21, 1, 7, 39, 123, 114, 78, 79, 41, 107, 50, 110, 118,
       68, 40, 69, 112, 122, 82, 42, 34, 94, 117, 73, 115, 43, 124, 17, 18,
       13, 81, 75, 84, 64, 87, 88, 37, 49, 17, 10, 47, 14, 8, 91, 122, 91, 27,
       103, 120, 82, 106, 65, 24, 17, 113, 56, 16, 2, 57, 80, 72, 54, 0, 96,
       21, 18, 8, 65, 102, 120, 54, 114, 67, 97, 98, 123, 94, 126, 39, 86, 6,
       112, 104, 11, 102, 66, 47, 1, 10, 105, 79, 95, 65, 123, 38, 53, 62,
       127, 37, 91, 11, 49, 41, 14, 35, 104, 12, 99, 67, 62, 48, 48, 84, 103,
       33, 75, 122, 51, 7, 100, 77, 63, 33, 1, 87, 59, 5, 123, 27, 39, 19,
       122, 40, 123, 77, 33, 122, 32, 89, 116, 85, 49, 50, 22, 20, 70, 0, 40,
       125, 33, 71, 114, 61, 1, 118, 56, 19, 24, 86, 92, 17, 43, 20, 52, 68,
       105, 29, 24, 8, 18, 83, 86, 93, 73, 40, 44, 82, 68, 70, 25, 87, 52, 72,
       52, 6, 15, 91, 15, 92, 115, 18, 38, 100, 0, 124, 49, 95, 63, 48, 26,
       124, 99, 89, 92, 11, 41, 17, 111, 38, 51, 105, 78, 121, 94, 81, 54,
       116, 115, 63, 39, 50, 25, 122, 41, 34, 32, 96, 2, 117, 2, 103, 127, 19,
       123, 40, 102, 115, 16, 95, 77, 23, 93, 0, 90, 115, 10, 123, 70, 69, 93,
       106, 99, 64, 117, 17, 91, 41, 59, 33, 90, 60, 88, 44, 9, 84, 122, 56,
       111, 117, 100, 85, 21, 62, 116, 7, 62, 124, 9, 126, 49, 81, 85, 11, 31,
       38, 80, 11, 16, 58, 37, 47, 9, 44, 44, 55, 94, 45, 35, 21, 74, 49, 70,
       70, 31, 34, 7, 16, 47, 100, 109, 115, 72, 86, 46, 22, 97, 40, 125, 85,
       101, 67, 81, 101, 28, 24, 54, 7, 27, 10, 122, 48, 7, 79, 33, 122, 88,
       55, 89, 27, 23, 63, 21, 51, 105, 121, 18, 37, 13, 86, 81, 71, 39, 93,
       79, 12, 9, 58, 124, 23, 76, 77, 111, 15, 83, 5, 121, 78, 115, 68, 7,
       20, 5, 28, 61, 60, 89, 125, 85, 87, 11, 117, 1, 126, 88, 84, 92, 51,
       110, 17, 55, 120, 124, 37, 31, 112, 32, 62, 97, 73, 76, 76, 10, 126,
       120, 79, 4, 117, 110, 12, 22, 55, 73, 14, 35, 81, 5, 124, 45, 100, 83,
       22, 34, 79, 67, 31, 71, 77, 78, 53, 49, 62, 121, 82, 89, 10, 3, 0, 33,
       55, 113, 64, 58, 91, 34, 71, 9, 9, 38, 63, 26, 60, 70, 5, 91, 23, 5, 7,
       87, 94, 9, 13, 98, 106, 51, 59, 77, 99, 107, 51, 6, 126, 26, 54, 56,
       45, 28, 12, 6, 101, 89, 49, 58, 77, 111, 26, 94, 73, 23, 11, 10, 15,
       56, 100, 98, 18, 80, 96, 87, 7, 72, 87, 83, 28, 16, 60, 102, 105, 98,
       86, 86, 32, 112, 25, 93, 39, 92, 45, 85, 75, 117, 60, 98, 65, 96, 63,
       32, 125, 56, 37, 73, 75, 6, 20, 33, 41, 86, 35, 71, 51, 22, 103, 38,
       36, 65, 92, 109, 127, 92, 10, 68, 90, 12, 121, 21, 44, 101, 27, 1, 104,
       44, 65, 54, 109, 72, 116, 122, 43, 16, 48, 114, 48, 107, 37, 62, 94,
       75, 34, 45, 51, 76, 13, 78, 117, 101, 16, 57, 26, 35, 24, 50, 50, 93,
       103, 103, 2, 76, 89, 73, 107, 110, 107, 99, 2, 12, 124, 122, 127, 82,
       66, 25, 67, 7, 47, 90, 43, 37, 74, 88, 106, 16, 80, 61, 17, 33, 49, 74,
       36, 54, 70, 119, 31, 4, 30, 6, 96, 107, 121, 67, 21, 42, 46, 83, 103,
       40, 17, 5, 46, 123, 4, 104, 24, 40, 36, 77, 39, 12, 46, 14, 123, 125,
       41, 54, 27, 21, 38, 84, 42, 105, 0, 125, 107, 8, 79, 69, 17, 105, 60,
       57, 25, 87, 2, 54, 102, 65, 72, 22, 78, 125, 68, 32, 8, 23, 6, 96, 23,
       125, 106, 63, 61, 118, 32, 127, 26, 45, 91, 78, 69, 61, 20, 85, 62, 86,
       49, 63, 31, 69, 47, 96, 89, 77, 101, 2, 96, 108, 100, 59, 41, 93, 108,
       24, 82, 110, 82, 21, 105, 50, 26, 29, 115, 102, 88, 5, 122, 59, 86, 7,
       7, 18, 112, 78, 122, 88, 3, 41, 67, 21, 121, 116, 83, 4, 107, 24, 47,
       32, 68, 83, 33, 50, 22, 93, 80, 37, 78, 124, 51, 42, 23, 108, 5, 30,
       12, 102, 72, 110, 13, 65, 66, 103, 100, 11, 89, 60, 87, 100, 112, 40,
       46, 73, 71, 53, 124, 88, 3, 78, 68, 94, 7, 123, 121, 38, 26, 63, 61,
       32, 12, 62, 65, 53, 23, 37, 17, 33, 33, 5, 42, 85, 26, 4, 0, 100, 2,
       88, 112, 93, 89, 105, 61, 2, 51, 62, 47, 61, 28, 91, 74, 44, 36, 121,
       72, 31, 7, 5, 55, 9, 12, 104, 121, 72, 5, 93, 54, 96, 11, 112, 21, 87,
       127, 82, 1, 40, 66, 82, 49, 6, 100, 19, 89, 10, 116, 57, 36, 37, 14,
       74, 8, 45, 119, 17, 18, 94, 51, 103, 83, 54, 97, 52, 86, 61, 123, 53,
       29, 5, 47, 83, 1, 71, 68, 107, 91, 25, 55, 125, 59, 49, 122, 91, 97,
       10, 126, 30, 43, 102, 111, 52, 23, 17, 118, 82, 95, 125, 65, 41, 15,
       19, 10, 19, 24, 89, 127, 10, 6, 32, 43, 38, 114, 62, 48, 87, 9, 5, 84,
       54, 121, 105, 49, 104, 18, 45, 122, 67, 0, 41, 106, 117, 44, 96, 93,
       118, 37, 64, 91, 44, 1, 106, 108, 104, 13, 21, 100, 15, 19, 10, 49,
       119, 89, 114, 25, 37, 105, 121, 116, 55, 105, 62, 94, 26, 111, 12, 81,
       113, 38, 49, 27, 68, 96, 38, 87, 104, 43, 16, 5, 62, 103, 47, 33, 90,
       36, 97, 79, 14, 68, 50, 5, 55, 64, 99, 105, 77, 35, 107, 18, 78, 81,
       36, 114, 73, 55, 119, 23, 112, 76, 126, 114, 23, 67, 20, 51, 28, 122,
       34, 102, 44, 91, 32, 119, 8, 36, 106, 4, 32, 78, 83, 30, 70, 54, 106,
       72, 62, 85, 105, 79, 57, 107, 28, 83, 118, 121, 126, 62, 35, 2, 126,
       106, 87, 82, 83, 15, 32, 24, 57, 59, 50, 22, 3, 113, 91, 33, 14, 69,
       97, 109, 67, 7, 43, 67, 40, 61, 107, 116, 75, 81, 5, 1, 7, 65, 80, 126,
       24, 52, 88, 101, 80, 2, 103, 31, 22, 32, 26, 117, 112, 110, 5, 73, 70,
       72, 100, 2, 11, 31, 59, 84, 88, 83, 57, 20, 0, 74, 99, 61, 115, 43,
       109, 60, 68, 95, 76, 67, 58, 84, 52, 72, 116, 63, 67, 27, 57, 10, 55,
       72, 10, 95, 41, 100, 107, 114, 67, 124, 42, 91, 43, 54, 10, 90, 108, 4,
       17, 8, 61, 44, 90, 71, 81, 77, 123, 51, 51, 98, 109, 84, 123, 52, 62,
       21, 81, 5, 55, 99, 93, 91, 10, 74, 74, 56, 58, 74, 54, 127, 62, 111,
       70, 92, 47, 44, 45, 32, 51, 68, 123, 2, 58, 85, 16, 1, 91, 103, 92, 27,
       15, 9, 26, 99, 28, 76, 68, 65, 125, 94, 112, 70, 72, 103, 43, 40, 50,
       112, 107, 3, 70, 27, 10, 57, 47, 56, 113, 35, 22, 113, 18, 80, 0, 5,
       112, 119, 40, 57, 23, 121, 14, 58, 15, 13, 62, 42, 117, 115, 19, 30,
       102, 98, 32, 41, 19, 57, 107, 63, 3, 38, 86, 37, 75, 55, 49, 92, 13,
       27, 123, 111, 50, 78, 41, 10, 90, 34, 33, 53, 79, 117, 127, 52, 27, 67,
       61, 121, 64, 42, 31, 127, 27, 25, 15, 103, 9, 9, 72, 19, 125, 26, 15,
       8, 12, 97, 21, 24, 9, 111, 54, 40, 86, 117, 24, 100, 41, 43, 32, 117,
       89, 111, 20, 110, 104, 25, 77, 88, 56, 47, 126, 113, 106, 18, 72, 41,
       116, 78, 69, 112, 28, 55, 57, 9, 110, 84, 6, 91, 66, 70, 81, 19, 34,
       122, 15, 100, 23, 122, 50, 33, 1, 98, 38, 96, 36, 48, 49, 4, 25, 45,
       51, 34, 19, 33, 86, 36, 70, 87, 111, 78, 127, 28, 43, 95, 86, 38, 119,
       20, 82, 110, 39, 118, 21, 21, 15, 67, 101, 114, 52, 33, 91, 25, 118,
       89, 62, 120, 53, 9, 121, 98, 81, 31, 50, 13, 57, 88, 5, 2, 64, 115, 62,
       27, 8, 111, 66, 39, 15, 125, 45, 110, 68, 13, 27, 20, 109, 72, 25, 18,
       57, 102, 36, 58, 123, 123, 91, 16, 60, 76, 101, 7, 64, 30, 111, 123,
       12, 123, 87, 51, 41, 90, 64, 88, 48, 95, 99, 81, 65, 24, 1, 126, 86,
       85, 89, 89, 52, 69, 1, 115, 49, 79, 124, 72, 70, 115, 32, 84, 20, 10,
       79, 97, 102, 110, 85, 41, 33, 42, 41, 120, 80, 85, 103, 47, 70, 64,
       105, 0, 23, 99, 67, 39, 46, 97, 122, 101, 40, 55, 3, 122, 117, 50, 74,
       57, 23, 31, 56, 80, 50, 27, 70, 91, 60, 95, 13, 56, 92, 122, 102, 109,
       5, 81, 93, 76, 56, 61, 9, 58, 27, 82, 44, 4, 64, 111, 116, 49, 26, 110,
       36, 79, 105, 2, 121, 0, 32, 106, 21, 0, 50, 8, 69, 124, 21, 125, 36, 5,
       63>>)
    @@
    (2359 :> <<
       71, 118, 10, 7, 31, 67, 91, 32, 54, 31, 118, 109, 77, 88, 69, 7, 74,
       28, 85, 6, 2, 9, 115, 25, 53, 77, 62, 51, 6, 74, 53, 71, 75, 70, 52,
       29, 58, 15, 98, 48, 19, 99, 109, 97, 25, 105, 93, 32, 21, 114, 70, 44,
       107, 19, 112, 22, 8, 107, 22, 102, 76, 17, 60, 78, 96, 13, 23, 109,
       115, 43, 120, 48, 106, 23, 46, 117, 81, 110, 79, 72, 17, 96, 86, 35,
       77, 99, 95, 57, 19, 83, 23, 67, 2, 122, 91, 26, 83, 99, 60, 121, 95,
       24, 57, 91, 69, 121, 116, 77, 66, 73, 108, 5, 23, 49, 18, 29, 53, 125,
       35, 54, 99, 72, 112, 88, 54, 33, 6, 74, 127, 114, 37, 4, 120, 50, 80,
       14, 8, 83, 114, 30, 97, 50, 122, 23, 18, 106, 102, 36, 74, 23, 31, 104,
       80, 94, 90, 58, 43, 69, 36, 114, 16, 30, 97, 20, 82, 120, 21, 55, 20,
       89, 111, 18, 67, 4, 70, 69, 116, 25, 103, 92, 123, 68, 80, 10, 84, 96,
       113, 59, 69, 110, 5, 105, 116, 108, 76, 87, 74, 43, 96, 84, 110, 51,
       91, 15, 92, 126, 88, 7, 77, 54, 5, 14, 125, 122, 113, 58, 107, 52, 100,
       119, 7, 38, 19, 66, 88, 104, 75, 38, 89, 114, 70, 23, 35, 94, 30, 79,
       125, 7, 32, 123, 75, 116, 69, 91, 13, 30, 72, 65, 59, 7, 65, 58, 71,
       38, 54, 126, 54, 86, 53, 111, 17, 88, 119, 72, 58, 73, 33, 100, 94, 58,
       104, 58, 123, 107, 66, 20, 115, 55, 9, 119, 3, 120, 122, 87, 66, 5, 10,
       70, 85, 119, 65, 118, 30, 61, 65, 65, 105, 6, 33, 10, 61, 64, 118, 64,
       66, 31, 70, 89, 115, 63, 37, 39, 24, 116, 63, 76, 110, 17, 107, 114,
       112, 22, 122, 112, 41, 101, 116, 97, 57, 12, 103, 59, 2, 77, 64, 80,
       68, 118, 115, 25, 4, 68, 43, 39, 88, 28, 0, 85, 54, 109, 2, 85, 50,
       116, 37, 50, 25, 17, 36, 80, 69, 71, 112, 47, 70, 14, 126, 33, 108,
       123, 124, 103, 56, 3, 41, 79, 42, 124, 69, 54, 121, 118, 12, 107, 47,
       79, 74, 13, 45, 24, 86, 3, 61, 15, 12, 118, 52, 20, 19, 98, 54, 78, 65,
       90, 29, 49, 117, 79, 8, 52, 100, 105, 16, 56, 10, 25, 121, 97, 23, 48,
       60, 78, 22, 5, 71, 7, 112, 110, 58, 68, 52, 2, 68, 92, 67, 8, 7, 16,
       70, 65, 30, 93, 126, 45, 78, 39, 17, 112, 49, 53, 49, 11, 116, 52, 70,
       85, 110, 78, 29, 5, 8, 104, 98, 53, 82, 73, 53, 98, 119, 99, 47, 57,
       13, 122, 59, 90, 79, 55, 13, 103, 124, 25, 22, 42, 115, 92, 32, 117,
       78, 89, 85, 35, 101, 52, 4, 13, 84, 36, 127, 92, 83, 69, 21, 34, 48,
       48, 2, 74, 119, 121, 32, 104, 83, 79, 89, 51, 41, 95, 12, 105, 56, 47,
       43, 38, 95, 122, 25, 127, 90, 103, 69, 65, 73, 38, 0, 110, 80, 27, 0,
       117, 109, 67, 127, 127, 115, 58, 43, 45, 51, 103, 48, 28, 99, 74, 84,
       16, 81, 35, 69, 99, 53, 118, 71, 111, 5, 121, 14, 22, 16, 67, 55, 119,
       86, 40, 41, 127, 12, 50, 93, 98, 86, 54, 95, 96, 36, 12, 58, 13, 75,
       22, 48, 50, 127, 33, 107, 63, 13, 69, 97, 87, 126, 106, 56, 76, 47, 63,
       69, 105, 16, 105, 94, 11, 44, 53, 24, 33, 96, 105, 23, 112, 46, 106,
       54, 89, 96, 124, 51, 36, 47, 8, 89, 96, 121, 66, 61, 53, 103, 26, 8,
       62, 5, 55, 60, 81, 119, 110, 80, 119, 114, 0, 113, 100, 89, 36, 21,
       106, 110, 123, 38, 113, 11, 49, 41, 116, 7, 48, 127, 73, 79, 127, 125,
       13, 26, 3, 95, 6, 8, 1, 22, 29, 118, 70, 106, 15, 25, 54, 119, 15, 96,
       99, 38, 78, 106, 90, 38, 92, 16, 99, 112, 41, 71, 100, 26, 123, 97, 18,
       32, 99, 12, 53, 79, 68, 91, 107, 30, 29, 62, 88, 59, 81, 47, 56, 50,
       27, 89, 88, 48, 103, 90, 47, 62, 71, 20, 19, 1, 124, 106, 34, 94, 46,
       29, 17, 95, 76, 40, 55, 58, 30, 64, 65, 31, 87, 107, 102, 72, 65, 100,
       4, 0, 70, 59, 5, 79, 71, 82, 26, 106, 84, 103, 28, 97, 45, 20, 96, 33,
       17, 43, 82, 76, 85, 37, 35, 123, 38, 101, 91, 48, 102, 29, 126, 99, 57,
       46, 61, 77, 38, 40, 10, 98, 77, 12, 52, 80, 123, 109, 101, 127, 68,
       122, 50, 94, 9, 23, 78, 69, 98, 21, 19, 127, 28, 114, 102, 32, 88, 30,
       104, 1, 39, 20, 12, 28, 80, 104, 96, 58, 123, 117, 120, 4, 78, 104, 57,
       86, 122, 75, 43, 54, 29, 74, 95, 10, 36, 11, 60, 53, 77, 5, 44, 120,
       30, 94, 9, 65, 8, 75, 51, 59, 59, 82, 98, 45, 20, 8, 39, 52, 21, 7,
       126, 75, 89, 78, 33, 0, 99, 36, 67, 43, 30, 126, 62, 50, 107, 8, 122,
       80, 83, 16, 42, 50, 56, 13, 8, 47, 8, 102, 8, 29, 77, 80, 29, 100, 4,
       121, 70, 27, 108, 109, 80, 84, 107, 85, 40, 3, 30, 7, 94, 88, 30, 117,
       54, 115, 84, 28, 123, 116, 84, 110, 77, 119, 27, 57, 101, 123, 107, 5,
       59, 123, 96, 40, 82, 33, 25, 98, 102, 68, 44, 29, 103, 56, 69, 97, 124,
       94, 53, 93, 22, 99, 125, 112, 108, 97, 127, 66, 20, 116, 2, 19, 27, 3,
       94, 24, 49, 28, 60, 109, 13, 34, 124, 54, 69, 52, 43, 123, 59, 17, 94,
       105, 47, 14, 65, 126, 54, 73, 108, 105, 64, 17, 81, 8, 19, 42, 11, 121,
       18, 36, 0, 82, 94, 100, 117, 104, 16, 114, 106, 0, 127, 39, 46, 68, 54,
       51, 63, 21, 45, 17, 7, 112, 85, 63, 95, 97, 53, 65, 2, 67, 45, 23, 31,
       102, 89, 22, 76, 45, 49, 2, 57, 17, 127, 76, 108, 107, 110, 58, 0, 86,
       22, 105, 51, 105, 87, 117, 28, 67, 74, 108, 64, 19, 103, 85, 2, 16, 19,
       26, 68, 109, 55, 123, 14, 1, 38, 126, 105, 112, 51, 86, 82, 1, 23, 11,
       54, 64, 71, 100, 104, 118, 109, 94, 28, 4, 30, 67, 24, 122, 13, 110,
       33, 103, 103, 114, 56, 52, 110, 74, 70, 2, 127, 126, 108, 8, 46, 66,
       119, 84, 7, 26, 22, 87, 104, 10, 88, 74, 125, 0, 121, 31, 112, 59, 9,
       45, 116, 100, 103, 113, 69, 13, 72, 99, 13, 61, 95, 92, 9, 55, 113, 26,
       121, 59, 64, 105, 103, 88, 45, 118, 88, 99, 19, 33, 75, 83, 119, 33,
       81, 55, 119, 103, 33, 9, 87, 30, 50, 125, 104, 22, 23, 125, 108, 44,
       85, 49, 112, 78, 7, 100, 38, 118, 78, 67, 44, 60, 105, 44, 45, 117, 18,
       44, 53, 34, 74, 8, 16, 61, 51, 27, 121, 86, 18, 117, 96, 69, 44, 68,
       61, 66, 72, 51, 25, 94, 98, 96, 14, 76, 74, 120, 65, 33, 74, 48, 103,
       90, 2, 100, 46, 118, 77, 68, 121, 104, 124, 102, 62, 96, 54, 82, 99,
       79, 37, 2, 28, 39, 93, 25, 33, 66, 108, 118, 43, 52, 120, 12, 117, 116,
       78, 121, 62, 53, 126, 17, 22, 25, 66, 111, 21, 3, 78, 117, 110, 39,
       114, 97, 47, 86, 125, 26, 82, 44, 62, 18, 10, 31, 33, 68, 41, 27, 69,
       60, 93, 44, 123, 30, 46, 125, 55, 92, 57, 58, 17, 27, 8, 2, 60, 57, 95,
       103, 106, 110, 78, 120, 36, 93, 85, 108, 44, 23, 14, 6, 79, 125, 122,
       11, 123, 43, 124, 23, 61, 5, 3, 123, 1, 68, 6, 46, 104, 52, 9, 81, 108,
       60, 8, 93, 7, 18, 46, 23, 104, 31, 19, 4, 10, 28, 126, 108, 26, 85, 72,
       111, 6, 32, 22, 22, 62, 38, 77, 102, 19, 118, 123, 51, 41, 27, 121, 76,
       21, 109, 58, 66, 32, 24, 29, 20, 97, 36, 27, 43, 37, 92, 5, 51, 27,
       120, 48, 101, 13, 34, 36, 50, 56, 98, 86, 30, 62, 63, 59, 75, 70, 107,
       44, 111, 15, 106, 91, 109, 126, 110, 43, 56, 63, 62, 31, 120, 96, 87,
       4, 92, 36, 20, 121, 104, 90, 81, 37, 4, 10, 88, 85, 47, 32, 86, 89,
       127, 12, 84, 78, 6, 94, 23, 17, 79, 13, 83, 15, 90, 92, 58, 67, 40, 12,
       62, 52, 120, 122, 13, 81, 16, 33, 49, 52, 68, 124, 98, 72, 73, 102,
       122, 43, 126, 74, 49, 111, 22, 75, 36, 34, 91, 53, 42, 55, 19, 90, 91,
       28, 91, 13, 40, 72, 87, 33, 61, 40, 97, 48, 70, 116, 115, 48, 40, 119,
       121, 108, 41, 31, 78, 61, 76, 4, 17, 24, 74, 118, 9, 86, 8, 27, 33, 13,
       24, 65, 126, 63, 118, 19, 38, 11, 42, 19, 52, 92, 126, 36, 18, 62, 23,
       35, 37, 0, 115, 92, 95, 118, 66, 116, 2, 6, 77, 57, 116, 84, 79, 34,
       104, 74, 1, 80, 17, 60, 79, 14, 41, 71, 31, 96, 14, 19, 59, 100, 30,
       66, 21, 59, 9, 81, 58, 63, 8, 1, 107, 29, 86, 107, 52, 43, 42, 18, 116,
       3, 127, 103, 118, 36, 7, 106, 4, 101, 6, 81, 18, 34, 82, 102, 48, 70,
       115, 86, 61, 26, 35, 100, 127, 27, 41, 0, 93, 82, 58, 126, 28, 24, 35,
       113, 106, 75, 110, 34, 19, 90, 112, 17, 83, 39, 68, 93, 90, 127, 53,
       126, 4, 7, 59, 52, 117, 104, 19, 70, 58, 111, 77, 4, 113, 51, 109, 61,
       99, 45, 3, 14, 71, 69, 11, 52, 71, 18, 7, 22, 23, 5, 118, 82, 66, 60,
       117, 45, 15, 13, 69, 18, 84, 10, 54, 40, 100, 100, 113, 120, 43, 87, 0,
       7, 120, 46, 23, 124, 96, 69, 29, 120, 66, 14, 2, 1, 78, 43, 116, 107,
       60, 121, 102, 123, 11, 75, 38, 1, 4, 103, 62, 37, 124, 21, 89, 104, 51,
       52, 59, 126, 18, 39, 14, 13, 9, 0, 7, 9, 74, 73, 75, 68, 92, 17, 65,
       111, 19, 2, 15, 60, 40, 1, 108, 66, 12, 120, 48, 46, 46, 102, 94, 93,
       57, 62, 32, 55, 108, 8, 8, 16, 61, 70, 14, 10, 19, 35, 34, 20, 15, 103,
       18, 126, 22, 27, 3, 88, 116, 61, 19, 62, 119, 46, 3, 105, 33, 101, 110,
       85, 93, 97, 107, 60, 9, 21, 115, 42, 5, 36, 14, 96, 87, 10, 34, 12,
       108, 103, 112, 93, 88, 91, 126, 33, 23, 80, 119, 103, 55, 16, 88, 49,
       68, 72, 68, 100, 97, 14, 20, 0, 63, 7, 15, 0, 23, 37, 82, 3, 126, 67,
       116, 78, 124, 43, 108, 96, 101, 104, 84, 68, 60, 15, 93, 66, 8, 75, 10,
       57, 77, 25, 46, 48, 81, 101, 10, 59, 38, 12, 67, 77, 83, 118, 14, 70,
       71, 92, 67, 100, 53, 29, 111, 6, 5, 2, 22, 26, 124, 41, 101, 39, 98,
       44, 56, 11, 7, 74, 65, 123, 97, 56, 18, 70, 77, 98, 54, 89, 83, 98, 62,
       2, 123, 93, 46, 8, 105, 74, 88, 26, 63, 29, 28, 85, 85, 125, 103, 45,
       127, 79, 105, 96, 85, 31, 60, 90, 107, 111, 120, 18, 96, 118, 22, 8,
       94, 23, 60, 93, 112, 125, 69, 98, 72, 112, 23, 107, 75, 94, 90, 38, 21,
       11, 124, 86, 51, 36, 49, 39, 106, 113, 25, 79, 118, 7, 32, 97, 46, 55,
       90, 87, 119, 62, 35, 100, 51, 77, 73, 90, 57, 122, 69, 65, 72, 56, 83,
       47, 76, 92, 39, 89, 13, 55, 35, 15, 52, 105, 98, 3, 109, 123, 34, 70,
       29, 24, 14, 83, 26, 60, 122, 106, 81, 124, 93, 15, 56, 115, 87, 20,
       125, 17, 34, 21, 97, 64, 2, 30, 3, 43, 125, 120, 38, 47, 127, 41, 2,
       124, 3, 125, 8, 32, 33, 50, 120, 6, 87, 24, 78, 99, 47, 45, 7, 36, 0,
       42, 79, 10, 11, 37, 117, 17, 109, 80, 69, 10, 15, 40, 63, 19, 38, 126,
       44, 40, 8, 86, 78, 97, 32, 16, 50, 85, 70, 56, 17, 114, 10, 20, 98, 74,
       99, 0, 91, 126, 125, 102, 122, 60, 61, 20, 9, 18, 113, 88, 81, 68, 58,
       16, 108, 13, 101, 93, 109, 45, 107, 126, 28, 108, 98, 47, 15, 38, 116,
       99, 88, 90, 60, 113, 89, 21, 71, 1, 67, 73, 7, 112, 125, 45, 3, 90, 31,
       25, 91, 50, 9, 86, 0, 71, 43, 103, 71, 57, 46, 123, 65, 61, 98, 43, 81,
       5, 2, 73, 126, 70, 17, 27, 24, 53, 86, 124, 40, 117, 70, 36, 13, 108,
       39, 74, 67, 41, 112, 37, 101, 34, 16, 5, 21, 73, 13, 33, 12, 66, 66,
       110, 112, 1, 86, 38, 12, 65, 78, 101, 80, 29, 112, 10, 99, 73, 66, 62,
       53, 58, 102, 40, 43, 53, 108, 105, 34, 76, 95, 6, 99, 60, 120, 1, 42,
       110, 5, 115, 18, 84, 46, 19, 106, 83, 121, 25, 34, 46, 121, 24, 123,
       110, 118, 109, 11, 76, 101, 116, 47, 119, 127, 20, 123, 72, 21, 40, 28,
       79, 110, 119, 121, 106, 0, 121, 13, 96, 70, 71, 50, 65, 7, 62, 28, 111,
       17, 73, 46, 40, 70, 108, 26, 108, 96, 77, 37, 116, 72, 31, 125, 33,
       113, 89, 36, 0, 114, 13, 75, 49, 106, 18, 107, 43, 65, 127, 117, 88,
       92, 61, 36, 104, 94, 121, 120, 17, 0, 75, 28, 55, 6, 59, 111, 107, 34,
       30, 12, 25, 48, 40, 54, 96, 80, 17, 48, 86, 105, 89, 109, 74, 39, 71,
       14, 125, 42, 16, 11, 97, 97, 6, 18, 97, 64, 61, 45, 26, 62, 108, 62,
       94, 62, 1, 64, 36, 3, 10, 71, 70, 65, 98, 16, 94, 74, 74, 119, 19, 124,
       67, 54, 93, 112, 51, 17, 122, 1, 38, 73, 41, 110, 101, 23, 0, 1, 68,
       29, 114, 103, 35, 66, 39, 88, 48, 32, 15, 58, 41, 0, 25, 61, 29, 116,
       37, 113, 2, 48, 41, 13, 56, 115, 71, 51, 89, 111, 117, 125, 112, 31,
       72, 123, 53, 32, 9, 18, 9, 40, 69, 71, 68, 65, 32, 5, 99, 28, 94, 2,
       102, 1, 89, 114, 55, 15, 90, 55, 114, 46, 49, 83, 87, 78, 112, 21, 86,
       118, 11, 88, 15, 95, 110, 7, 53, 116, 49, 9, 81, 79, 115, 80, 92, 99,
       78, 92, 126, 91, 19, 3, 31, 114, 72, 51, 96, 91, 98, 110, 26, 41, 79,
       122, 93, 87, 74, 87, 103, 4, 16, 75, 63, 45, 23, 31, 4, 21, 31, 37, 75,
       107, 18, 12, 56, 85, 99, 121, 50, 123, 32, 41, 115, 105, 20, 126, 48,
       33, 120, 103, 49, 114, 79, 1, 35, 71, 74, 96, 125, 49, 82, 57, 39, 113,
       15, 103, 60, 7, 96, 99, 111, 61, 94, 118, 62, 17, 54, 4, 31, 16, 117,
       81, 40, 49, 99, 118, 55, 58, 65, 66, 93, 117, 46, 82, 75, 31, 94, 122,
       87, 23, 27, 86, 93, 120, 114, 12, 125, 84, 122, 90, 98, 30, 12, 95, 81,
       118, 79, 36, 73, 44, 12, 44, 37, 20, 116, 35, 110, 56, 14, 22, 13, 30,
       32, 101, 15, 16, 93, 66, 20, 99, 124, 55, 32, 70, 5, 80, 25, 67, 104,
       80, 104, 14, 69, 105, 124, 27, 0, 14, 3, 119, 77, 42, 11, 26, 103, 106,
       96, 51, 46, 95, 44, 45, 6, 88, 2, 44, 2, 73, 29, 73, 38, 57, 60, 52,
       52, 29, 61, 76, 82, 113, 40, 78, 117, 48, 95, 72, 25, 116, 127, 124,
       30, 102, 78, 108, 120, 125, 67, 27, 3, 104, 33, 56, 6, 121, 14, 26,
       119, 9, 58, 48, 84, 49, 112, 33, 97, 88, 46, 66, 6, 63, 110, 119, 36,
       81, 86, 69, 122, 115, 74, 117, 86, 88, 69, 64, 26, 15, 52, 82, 93, 0,
       24, 86, 0, 118, 126, 69, 21, 20, 81, 7, 94, 72, 95, 46, 33, 16, 78, 27,
       122, 14, 57, 64, 33, 26, 31, 35, 65, 57, 61, 75, 119, 53, 36, 67, 119,
       107, 62, 36, 41, 123, 67, 126, 102, 9, 62, 17, 46, 32, 23, 7, 85, 57,
       4, 33, 5, 105, 104, 4, 103, 14, 102, 110, 56, 1, 24, 5, 109, 73, 57, 3,
       100, 67, 19, 63, 5, 102, 52, 28, 61, 14, 68, 55, 77, 18, 95, 100, 108,
       41, 106, 48, 103, 42, 43, 58, 79, 61, 114, 90, 119, 92, 23, 1, 122, 17,
       63, 51, 43, 43, 122, 36, 57, 5, 27, 61, 30, 67, 26, 93, 13, 92, 22, 86,
       65, 100, 42, 117, 45, 115, 39, 35, 57, 38, 98, 55, 18, 13, 17, 68, 14,
       33, 4, 69, 22, 63, 3, 10, 5, 83, 55, 95, 7, 9, 34, 88, 87, 61, 82, 64,
       59, 77, 12, 49, 111, 11, 125, 22, 100, 109, 4, 84, 97, 102, 124, 32,
       63, 44, 57, 9, 72, 86, 114, 98, 55, 68, 95, 48, 3, 82, 124, 12, 106,
       116, 108, 19, 85, 86, 29, 86, 125, 3, 88, 123, 107, 90, 0, 3, 12, 14,
       14, 80, 20, 112, 51, 95, 65, 8, 7, 59, 32, 43, 21, 113, 73, 14, 68, 14,
       26, 104, 79, 15, 83, 27, 117, 50, 112, 67, 41, 75, 27, 72, 19, 80, 31,
       50, 10, 4, 0, 35, 5, 115, 111, 36, 67, 20, 16, 7, 127, 57, 99, 13, 39,
       61, 14, 76, 17, 56, 36, 108, 114, 73, 31, 68, 1, 12, 104, 44, 23, 24,
       87, 69, 3, 29, 5, 113, 33, 22, 104, 120, 1, 10, 88, 67, 25, 11, 107,
       92, 117, 47, 73, 7, 64, 67, 99, 48, 63, 49, 57, 76, 67, 64, 121, 38,
       56, 112, 113, 105, 50, 3, 23, 74, 82, 84, 123, 65, 85, 93, 87, 38, 82,
       68, 111, 126, 67, 52, 12, 116, 102, 116, 93, 95, 95, 84, 44, 109, 8,
       62, 29, 108, 94, 20, 118, 38, 73, 51, 24, 82, 121, 56, 21, 95, 59, 50,
       38, 7, 116, 112, 121, 61, 97, 72, 18, 33, 68, 30, 86, 124, 51, 20, 83,
       4, 36, 48, 60, 38, 114, 53, 127, 106, 88, 23, 29, 21, 47, 1, 63, 71,
       99, 78, 15, 65, 83, 80, 26, 90, 7, 61, 13, 105, 95, 117, 116, 102, 120,
       14, 50, 25, 57, 113, 91, 51, 56, 4, 17, 101, 19, 4, 106, 115, 59, 32,
       114, 78, 34, 77, 108, 81, 91, 28, 126, 50, 67, 108, 110, 125, 114, 100,
       111, 120, 97, 126, 47, 25, 88, 42, 65, 104, 41, 120, 103, 115, 58, 77,
       36, 118, 75, 52, 102, 9, 43, 35, 0, 10, 71, 21, 17, 102, 122, 81, 3,
       124, 34, 18, 56, 100, 126, 36, 21, 125, 86, 119, 37, 1, 83, 14, 78, 64,
       40, 112, 105, 23, 110, 75, 37, 91, 54, 42, 74, 9, 116, 56, 113, 63, 11,
       116, 30, 123, 66, 109, 21, 41, 41, 52, 74, 60, 57, 126, 9, 21, 78, 30,
       110, 102, 93, 48, 96, 36, 43, 81, 78, 104, 1, 20, 79, 1, 87, 126, 74,
       90, 111, 85, 27, 10, 81, 22, 96, 100, 42, 13, 66, 32, 39, 53, 58, 114,
       48, 16, 10, 63, 67, 25, 75, 23, 59, 98, 53, 37, 82, 46, 4, 62, 43, 16,
       21, 20, 70, 52, 33, 49, 101, 99, 81, 69, 3, 79, 120, 112, 40, 75, 113,
       31, 63, 81, 68, 106, 39, 65, 4, 110, 64, 89, 26, 36, 78, 96, 120, 23,
       12, 90, 120, 70, 107, 31, 69, 19, 82, 105, 66, 34, 47, 17, 81, 126,
       120, 89, 42, 14, 14, 106, 122, 112, 86, 70, 41, 13, 75, 56, 8, 117, 81,
       122, 54, 111, 1, 52, 5, 93, 102, 99, 0, 25, 79, 125, 89, 116, 14, 101,
       40, 40, 32, 104, 81, 33, 87, 60, 75, 107, 85, 30, 96, 95, 76, 104, 110,
       17, 18, 0, 39, 95, 64, 93, 5, 15, 87, 37, 116, 12, 61, 6, 97, 93, 75,
       6, 73, 64, 98, 83, 98, 110, 47, 9, 92, 94, 20, 45, 64, 2, 4, 124, 83,
       72, 115, 12, 9, 12, 113, 20, 54, 122, 104, 4, 80, 75, 87, 100, 19, 100,
       21, 27, 41, 12, 73, 95, 0, 17, 64, 62, 98, 94, 88, 115, 54, 96, 32, 98,
       0, 44, 41, 83, 101, 123, 127, 91, 4, 95, 41, 96, 22, 32, 28, 21, 93,
       118, 6, 112, 67, 53, 83, 75, 26, 44, 65, 90, 2, 33, 16, 28, 102, 38,
       37, 41, 103, 6, 40, 116, 67, 68, 51, 34, 17, 3, 55, 29, 65, 114, 85,
       44, 25, 125, 13, 22, 28, 88, 118, 49, 77, 123, 27, 0, 102, 83, 25, 12,
       18, 96, 104, 46, 120, 22, 38, 17, 83, 107, 53, 87, 126, 47, 96, 52, 30,
       37, 47, 50, 14, 126, 34, 105, 118, 89, 34, 33, 4, 58, 16, 71, 65, 102,
       120, 45, 3, 45, 90, 105, 78, 86, 21, 68, 8, 106, 107, 74, 83, 109, 122,
       42, 19, 29, 102, 26, 23, 74, 14, 82, 69, 127, 77, 123, 19, 97, 86, 77,
       3, 31, 18, 23, 84, 37, 87, 18, 112, 56, 106, 95, 119, 107, 52, 105, 85,
       71, 5, 54, 125, 110, 10, 105, 50, 18, 95, 103, 38, 69, 77, 49, 5, 110,
       25, 44, 64, 0, 37, 95, 2, 58, 114, 74, 45, 85, 10, 57, 22, 84, 16, 102,
       65, 117, 100, 117, 4, 33, 116, 62, 78, 100, 35, 4, 42, 35, 47, 55, 54,
       54, 53, 7, 71, 8, 47, 102, 110, 70, 74, 100, 67, 73, 71, 95, 16, 60,
       121, 94, 24, 110, 66, 39, 95, 77, 39, 53, 125, 0, 79, 57, 95, 86, 65,
       8, 66, 97, 98, 121, 82, 36, 31, 49, 4, 120, 73, 1, 55, 30, 31, 28, 125,
       13, 14, 54, 76, 32, 78, 118, 18, 85, 81, 68, 38, 123, 71, 5, 89, 22, 6,
       43, 82, 54, 14, 52, 1, 97, 97, 87, 112, 72, 63, 9, 38, 17, 77, 117,
       111, 88, 50, 116, 36, 32, 3, 13, 91, 2, 62, 76, 63, 88, 70, 11, 108,
       118, 85, 98, 122, 2, 46, 77, 47, 4, 101, 125, 86, 38, 99, 27, 96, 85,
       4, 28, 118, 8, 113, 111, 91, 102, 98, 6, 64, 108, 35, 69, 87, 33, 103,
       97, 34, 86, 24, 55, 107, 13, 69, 25, 112, 13, 44, 81, 48, 43, 48, 122,
       80, 41, 39, 10, 39, 78, 60, 56, 52, 11, 38, 79, 117, 9, 78, 119, 103,
       13, 26, 38, 75, 90, 125, 90, 120, 82, 28, 123, 115, 18, 24, 18, 14, 48,
       88, 92, 5, 104, 27, 91, 42, 2, 119, 47, 104, 50, 14, 97, 49, 38, 29,
       102, 14, 8, 77, 63, 116, 101, 68, 86, 29, 90, 56, 114, 16, 122, 23, 57,
       69, 71, 16, 95, 78, 91, 62, 100, 6, 61, 119, 27, 33, 68, 114, 88, 58,
       106, 16, 5, 67, 11, 1, 72, 39, 95, 79, 47, 48, 6, 94, 122, 49, 83, 101,
       2, 82, 60, 122, 2, 78, 68, 43, 90, 73, 53, 36, 78, 85, 34, 122, 72, 20,
       68, 41, 112, 71, 44, 85, 109, 81, 103, 31, 24, 115, 39, 18, 126, 48,
       66, 8, 83, 36, 1, 107, 69, 60, 65, 36, 35, 0, 76, 100, 43, 104, 45, 78,
       32, 47, 120, 35, 40, 16, 98, 120, 81, 119, 101, 78, 72, 111, 12, 32,
       12, 37, 84, 95, 115, 44, 107, 120, 116, 103, 99, 59, 109, 46, 108, 11,
       41, 122, 127, 60, 84, 37, 94, 38, 33, 115, 30, 16, 20, 19, 97, 26, 34,
       127, 119, 106, 113, 11, 47, 25, 122, 101, 33, 5, 65, 67, 110, 11, 22,
       107, 88, 72, 119, 26, 57, 65, 81, 18, 100, 125, 80, 125, 37, 82, 32,
       118, 90, 44, 20, 70, 75, 107, 77, 57, 86, 90, 50, 24, 123, 35, 95, 110,
       16, 53, 42, 30, 14, 11, 101, 20, 32, 84, 42, 74, 78, 86, 108, 7, 123,
       85, 125, 104, 1, 124, 82, 98, 18, 3, 62, 98, 75, 12, 119, 26, 72, 107,
       93, 6, 8, 54, 71, 60, 15, 60, 86, 112, 94, 39, 6, 77, 112, 35, 7, 77,
       56, 89, 100, 73, 119, 85, 24, 23, 36, 34, 70, 7, 84, 67, 91, 77, 83,
       24, 81, 93, 57, 125, 78, 101, 61, 26, 41, 125, 123, 15, 16, 21, 18, 18,
       41, 13, 18, 11, 94, 36, 55, 39, 121, 87, 110, 92, 100, 31, 4, 0, 85,
       16, 109, 9, 19, 9, 105, 101, 35, 43, 4, 38, 5, 11, 63, 10, 89, 4, 109,
       1, 120, 0, 60, 12, 4, 52, 33, 113, 111, 56, 65, 69, 99, 87, 25, 88, 1,
       12, 40, 104, 110, 90, 36, 94, 93, 104, 10, 120, 105, 37, 79, 11, 84,
       78, 110, 87, 17, 109, 70, 47, 84, 94, 51, 112, 102, 32, 100, 1, 30, 20,
       61, 100, 85, 89, 14, 41, 72, 19, 119, 123, 41, 69, 41, 44, 82, 85, 99,
       24, 69, 86, 15, 56, 16, 44, 83, 62, 97, 8, 22, 67, 84, 55, 57, 87, 115,
       120, 86, 64, 105, 8, 49, 7, 45, 9, 31, 20, 60, 120, 20, 76, 68, 14, 40,
       66, 114, 96, 39, 116, 40, 71, 85, 116, 53, 37, 107, 125, 69, 61, 67,
       96, 112, 123, 61, 69, 32, 4, 33, 91, 95, 76, 89, 42, 34, 50, 4, 84, 55,
       69, 40, 28, 28, 55, 124, 99, 114, 49, 22, 67, 109, 44, 107, 33, 83, 70,
       45, 80, 115, 80, 0, 110, 127, 104, 32, 13, 91, 46, 20, 83, 60, 62, 12,
       103, 109, 34, 127, 8, 121, 117, 13, 111, 57, 61, 58, 67, 58, 6, 44, 98,
       32, 39, 109, 61, 108, 12, 93, 81, 17, 59, 61, 53, 18, 28, 108, 79, 56,
       77, 106, 20, 115, 41, 49, 63, 106, 64, 15, 48, 56, 4, 36, 42, 117, 62,
       91, 114, 6, 1, 89, 73, 10, 62, 12, 63, 38, 120, 28, 10, 66, 28, 84,
       111, 36, 17, 8, 108, 87, 87, 41, 71, 65, 43, 31, 121, 24, 120, 65, 0,
       73, 114, 39, 87, 95, 95, 92, 28, 110, 112, 1, 32, 66, 45, 28, 65, 95,
       126, 44, 19, 57, 38, 67, 91, 30, 13, 28, 95, 39, 47, 34, 1, 62, 42, 30,
       48, 73, 103, 117, 111, 28, 119, 71, 0, 79, 45, 49, 26, 73, 82, 69, 24,
       122, 11, 39, 8, 80, 80, 51, 3, 57, 45, 118, 43, 124, 80, 49, 111, 100,
       81, 5, 19, 77, 96, 15, 104, 68, 124, 109, 101, 123, 10, 51, 32, 108,
       65, 106, 13, 93, 1, 58, 124, 16, 48, 15, 122, 34, 32, 4, 14, 42, 57,
       100, 78, 67, 72, 64, 69, 2, 51, 92, 31, 23, 79, 11, 98, 108, 59, 87,
       34, 17, 61, 51, 48, 97, 7, 11, 117, 79, 103, 31, 96, 75, 51, 0, 31, 49,
       96, 44, 92, 79, 116, 119, 39, 104, 70, 33, 5, 90, 8, 93, 21, 15, 50,
       51, 5, 68, 121, 29, 47, 51, 43, 74, 75, 80, 7, 61, 69, 67, 48, 71, 90,
       15, 44, 18, 2, 94, 120, 12, 2, 112, 76, 110, 58, 54, 74, 93, 88, 62,
       104, 89, 10, 25, 123, 69, 37, 16, 45, 80, 120, 39, 113, 106, 56, 2,
       112, 122, 90, 27, 108, 18, 54, 5, 121, 96, 102, 89, 76, 75, 12, 45,
       118, 24, 24, 6, 30, 63, 102, 92, 66, 49, 56, 25, 29, 82, 99, 76, 55,
       108, 93, 57, 17, 110, 41, 107, 61, 101, 76, 9, 48, 22, 49, 43, 35, 120,
       17, 8, 120, 113, 78, 27, 32, 8, 111, 97, 124, 108, 28, 3, 90, 15, 14,
       21, 95, 66, 2, 96, 117, 15, 80, 48, 31, 5, 32, 110, 33, 31, 60, 17,
       108, 54, 41, 83, 8, 123, 89, 127, 91, 63, 119, 115, 44, 15, 80, 109, 2,
       69, 113, 65, 21, 102, 46, 73, 82, 119, 49, 70, 101, 76, 2, 5, 50, 85,
       8, 76, 109, 106, 9, 8, 3, 126, 88, 85, 104, 74, 62, 88, 79, 8, 106, 30,
       74, 107, 22, 67, 14, 9, 11, 35, 68, 76, 49, 56, 29, 81, 73, 80, 72, 41,
       23, 46, 75, 94, 104, 79, 2, 103, 97, 39, 0, 113, 7, 9, 31, 38, 91, 50,
       7, 54, 3, 11, 109, 73, 9, 79, 114, 54, 7, 5, 49, 60, 50, 35, 119, 29,
       96, 4, 110, 18, 39, 23, 93, 21, 90, 68, 99, 52, 40, 104, 60, 74, 25,
       95, 123, 76, 76, 15, 12, 127, 54, 74, 15, 79, 31, 46, 59, 100, 14, 47,
       2, 99, 80, 14, 94, 116, 101, 92, 102, 62, 85, 118, 107, 85, 115, 9, 38,
       86, 24, 127, 60, 2, 27, 100, 54, 76, 123, 124, 108, 33, 111, 23, 105,
       91, 5, 91, 88, 34, 46, 17, 19, 53, 83, 82, 5, 119, 62, 92, 81, 9, 5,
       18, 75, 124, 78, 32, 18, 103, 122, 72, 119, 99, 4, 110, 76, 124, 68,
       117, 101, 71, 95, 12, 18, 22, 93, 47, 119, 83, 97, 49, 56, 70, 0, 96,
       91, 41, 1, 118, 109, 5, 49, 67, 42, 49, 88, 97, 86, 47, 0, 84, 1, 54,
       83, 54, 88, 15, 1, 111, 73, 14, 37, 57, 89, 75, 102, 28, 15, 123, 68,
       105, 110, 85, 74, 13, 26, 28, 102, 12, 22, 5, 64, 17, 5, 127, 73, 28,
       77, 34, 60, 13, 101, 92, 119, 112, 34, 35, 22, 31, 86, 93, 71, 94, 10,
       41, 86, 124, 109, 15, 62, 68, 98, 111, 50, 15, 101, 117, 34, 10, 70,
       112, 54, 48, 61, 37, 13, 109, 81, 5, 24, 58, 28, 111, 105, 14, 42, 114,
       66, 34, 114, 42, 50, 19, 14, 39, 56, 99, 80, 59, 83, 46, 74, 60, 12,
       91, 109, 62, 20, 86, 52, 67, 80, 98, 25, 82, 22, 18, 89, 60, 19, 10,
       44, 120, 96, 56, 122, 20, 90, 47, 24, 120, 20, 27, 14, 65, 24, 94, 103,
       10, 38, 73, 80, 62, 68, 53, 107, 45, 52, 3, 14, 38, 119, 47, 17, 69,
       103, 70, 21, 108, 54, 60, 57, 101, 19, 96, 94, 104, 110, 124, 56, 44,
       63, 24, 85, 94, 88, 88, 50, 43, 45, 71, 58, 76, 35, 111, 86, 81, 4, 54,
       105, 91, 115, 83, 73, 16, 41, 82, 67, 39, 108, 123, 32, 7, 116, 45,
       113, 84, 67, 11, 127, 33, 48, 101, 0, 18, 37, 52, 16, 113, 105, 85, 81,
       58, 60, 70, 93, 113, 121, 32, 92, 107, 74, 35, 47, 12, 121, 38, 103,
       75, 30, 82, 52, 84, 83, 105, 12, 20, 49, 56, 81, 25, 31, 70, 107, 111,
       66, 127, 72, 71, 84, 10, 31, 86, 85, 25, 22, 86, 100, 58, 32, 9, 0, 48,
       23, 62, 15, 61, 88, 50, 44, 58, 81, 63, 105, 24, 25, 127, 15, 5, 110,
       2, 1, 41, 30, 109, 31, 68, 115, 77, 125, 98, 4, 38, 42, 84, 76, 113, 6,
       99, 109, 32, 11, 7, 40, 91, 107, 32, 106, 87, 83, 52, 37, 114, 63, 77,
       42, 119, 118, 43, 89, 119, 33, 8, 99, 15, 54, 67, 66, 77, 38, 67, 3,
       105, 68, 116, 69, 84, 102, 80, 28, 100, 19, 122, 93, 107, 80, 65, 80,
       66, 93, 70, 25, 124, 85, 108, 110, 124, 71, 65, 100, 47, 69, 34, 40,
       66, 42, 77, 125, 69, 89, 117, 28, 124, 119, 73, 64, 121, 66, 34, 22, 0,
       112, 12, 2, 117, 1, 88, 85, 60, 54, 46, 41, 61, 81, 22, 85, 46, 16, 1,
       49, 62, 10, 19, 56, 17, 10, 26, 88, 115, 99, 38, 44, 46, 40, 27, 120,
       115, 1, 60, 96, 42, 16, 122, 60, 23, 84, 92, 110, 106, 19, 58, 67, 33,
       41, 38, 4, 119, 34, 103, 94, 43, 27, 6, 67, 90, 27, 48, 36, 92, 74,
       126, 39, 42, 109, 123, 6, 92, 125, 44, 127, 91, 82, 93, 4, 65, 99, 81,
       49, 65, 123, 67, 49, 113, 55, 112, 73, 90, 121, 58, 51, 77, 56, 68, 7,
       65, 99, 86, 111, 92, 14, 108, 97, 72, 113, 79, 4, 6, 51, 45, 64, 24,
       15, 36, 22, 44, 54, 103, 82, 4, 72, 37, 96, 3, 24, 23, 0, 36, 14, 17,
       108, 34, 39, 87, 99, 3, 100, 23, 102, 96, 48, 17, 11, 103, 58, 16, 65,
       91, 28, 38, 47, 69, 30, 66, 95, 52, 90, 50, 36, 48, 107, 16, 96, 54,
       37, 95, 100, 1, 73, 100, 43, 36, 83, 98, 71, 116, 41, 21, 70, 43, 78,
       79, 52, 39, 68, 13, 94, 62, 54, 4, 2, 29, 102, 35, 25, 74, 11, 29, 76,
       14, 38, 40, 5, 47, 6, 56, 66, 36, 66, 100, 123, 114, 54, 61, 71, 94,
       121, 64, 72, 26, 85, 60, 82, 71, 70, 45, 101, 45, 11, 5, 124, 44, 44,
       51, 20, 48, 99, 100, 88, 82, 42, 0, 58, 113, 66, 7, 91, 6, 81, 110, 92,
       11, 82, 67, 25, 74, 91, 21, 58, 22, 4, 107, 62, 27, 105, 7, 30, 122,
       66, 89, 32, 76, 82, 69, 86, 2, 5, 108, 46, 108, 57, 19, 106, 19, 1, 83,
       54, 59, 123, 117, 7, 43, 86, 5, 78, 124, 118, 125, 31, 116, 83, 108, 9,
       24, 53, 23, 39, 88, 5, 60, 33, 41, 75, 24, 110, 89, 21, 122, 37, 2, 94,
       69, 114, 65, 54, 22, 100, 68, 12, 15, 101, 88, 101, 111, 46, 26, 71,
       31, 22, 23, 25, 70, 78, 36, 123, 4, 23, 5, 9, 56, 86, 13, 63, 64, 45,
       5, 45, 81, 23, 57, 60, 78, 80, 87, 82, 87, 32, 22, 56, 93, 118, 85, 20,
       79, 14, 117, 79, 31, 35, 94, 62, 57, 0, 30, 72, 44, 30, 31, 72, 18, 13,
       45, 72, 28, 33, 0, 115, 82, 76, 38, 2, 23, 60, 90, 80, 103, 100, 108,
       31, 72, 19, 66, 98, 42, 77, 79, 61, 8, 98, 16, 25, 119, 22, 1, 91, 52,
       50, 32, 74, 84, 110, 81, 1, 107, 75, 101, 105, 44, 110, 17, 107, 56,
       19, 47, 77, 95, 108, 93, 82, 71, 77, 56, 83, 13, 31, 11, 21, 61, 94,
       27, 113, 125, 127, 118, 102, 115, 20, 4, 39, 4, 31, 6, 110, 35, 46,
       112, 14, 101, 96, 47, 20, 48, 42, 119, 110, 49, 28, 3, 27, 126, 126,
       16, 69, 42, 121, 74, 70, 124, 83, 124, 26, 88, 82, 92, 106, 112, 73,
       83, 87, 122, 83, 24, 124, 41, 115, 126, 67, 30, 84, 125, 109, 41, 81,
       28, 42, 92, 42, 33, 21, 102, 20, 14, 38, 102, 31, 18, 57, 14, 70, 81,
       112, 106, 6, 123, 74, 60, 113, 108, 117, 92, 33, 15, 14, 20, 98, 13,
       96, 58, 73, 50, 42, 87, 78, 113, 27, 50, 64, 36, 76, 95, 20, 61, 2, 66,
       51, 60, 53, 110, 55, 3, 127, 66, 114, 15, 92, 21, 101, 7, 36, 48, 118,
       93, 12, 27, 124, 65, 37, 73, 0, 70, 79, 112, 91, 73, 117, 77, 21, 81,
       25, 6, 89, 9, 73, 60, 120, 7, 20, 115, 8, 49, 115, 55, 58, 2, 62, 35,
       81, 10, 51, 119, 25, 113, 112, 23, 69, 93, 54, 16, 23, 84, 69, 87, 112,
       11, 64, 24, 69, 99, 125, 24, 97, 62, 34, 64, 27, 18, 82, 102, 77, 67,
       86, 53, 110, 99, 99, 105, 22, 70, 96, 77, 122, 93, 67, 102, 21, 26, 39,
       8, 127, 113, 113, 126, 80, 101, 99, 48, 71, 36, 85, 36, 3, 29, 94, 49,
       52, 78, 52, 17, 118, 90, 41, 82, 34, 112, 81, 35, 42, 10, 95, 15, 44,
       44, 62, 57, 111, 25, 42, 127, 89, 1, 60, 119, 5, 97, 57, 67, 49, 99,
       58, 94, 5, 87, 117, 18, 64, 5, 123, 76, 26, 44, 56, 12, 50, 81, 14, 42,
       104, 26, 67, 108, 13, 25, 25, 111, 31, 49, 44, 117, 6, 96, 90, 55, 85,
       127, 113, 12, 16, 55, 27, 9, 96, 87, 102, 123, 77, 6, 19, 68, 71, 119,
       65, 103, 2, 78, 83, 81, 100, 1, 78, 26, 45, 34, 120, 16, 15, 52, 38,
       106, 36, 83, 118, 23, 110, 21, 88, 28, 70, 94, 10, 63, 115, 120, 56,
       116, 69, 4, 88, 69, 61, 63, 9, 30, 7, 47, 84, 104, 1, 61, 68, 45, 65,
       59, 82, 86, 122, 21, 16, 97, 25, 40, 19, 107, 34, 71, 27, 43, 29, 98,
       109, 61, 25, 106, 27, 70, 73, 52, 92, 87, 44, 123, 63, 89, 35, 24, 54,
       109, 113, 17, 12, 64, 83, 47, 33, 5, 98, 53, 83, 51, 49, 95, 46, 126,
       42, 90, 93, 15, 25, 39, 10, 74, 87, 55, 9, 61, 84, 48, 125, 3, 38, 125,
       52, 58, 107, 6, 39, 28, 114, 102, 30, 113, 8, 36, 36, 17, 13, 30, 111,
       34, 49, 90, 70, 100, 70, 36, 27, 57, 70, 29, 14, 111, 18, 26, 32, 103,
       3, 73, 115, 25, 5, 76, 62, 28, 112, 39, 71, 62, 48, 80, 88, 106, 16,
       54, 83, 119, 22, 82, 91, 101, 10, 59, 92, 81, 9, 60, 111, 102, 14, 54,
       14, 52, 107, 36, 81, 61, 124, 109, 16, 95, 23, 85, 100, 17, 30, 1, 102,
       111, 57, 97, 84, 89, 76, 42, 64, 91, 49, 108, 41, 111, 58, 125, 65, 95,
       18, 1, 105, 0, 34, 41, 23, 97, 82, 52, 45, 72, 10, 12, 80, 34, 126, 9,
       87, 123, 13, 32, 4, 46, 118, 54, 123, 112, 79, 88, 47, 20, 19, 67, 45,
       9, 117, 5, 57, 48, 72, 33, 124, 98, 21, 9, 9, 103, 20, 13, 80, 54, 66,
       1, 19, 75, 42, 19, 17, 127, 121, 40, 24, 104, 124, 84, 84, 24, 17, 69,
       33, 52, 26, 35, 20, 90, 111, 106, 88, 92, 22, 55, 86, 95, 25, 46, 16,
       35, 12, 67, 114, 103, 39, 46, 96, 17, 59, 30, 53, 37, 58, 14, 99, 52,
       83, 57, 42, 98, 22, 6, 28, 66, 27, 127, 44, 42, 45, 4, 0, 124, 106, 14,
       118, 77, 10, 68, 125, 47, 11, 119, 15, 22, 38, 51, 34, 105, 7, 67, 48,
       124, 124, 92, 41, 88, 55, 98, 127, 92, 122, 37, 68, 53, 93, 24, 77, 98,
       102, 39, 86, 14, 114, 22, 60, 52, 112, 33, 126, 10, 83, 127, 94, 35,
       61, 41, 82, 71, 81, 5, 104, 69, 88, 114, 101, 117, 54, 83, 100, 41, 72,
       6, 83, 31, 120, 15, 38, 28, 23, 10, 6, 92, 78, 44, 91, 37, 21, 52, 27,
       113, 35, 105, 79, 8, 98, 38, 11, 77, 4, 59, 78, 27, 113, 32, 43, 40,
       71, 73, 53, 71, 37, 5, 123, 10, 123, 15, 79, 69, 5, 63, 50, 110, 34,
       50, 107, 51, 108, 116, 32, 113, 88, 71, 82, 56, 102, 63, 40, 65, 43,
       42, 15, 113, 60, 127, 27, 55, 72, 9, 60, 25, 62, 61, 60, 20, 95, 17,
       82, 37, 107, 17, 47, 95, 57, 50, 82, 87, 126, 8, 108, 25, 65, 61, 6,
       119, 94, 24, 85, 76, 94, 31, 121, 107, 111, 32, 70, 85, 101, 31, 37,
       123, 76, 109, 114, 12, 89, 62, 36, 63, 11, 107, 120, 90, 40, 65, 29,
       60, 12, 19, 97, 26, 42, 18, 82, 5, 77, 102, 0, 12, 42, 66, 8, 43, 28,
       23, 53, 42, 68, 113, 67, 98, 6, 105, 75, 4, 40, 5, 114, 125, 120, 16,
       19, 65, 85, 50, 45, 47, 40, 14, 89, 58, 124, 66, 66, 2, 20, 39, 72, 28,
       87, 6, 97, 98, 2, 45, 96, 13, 10, 12, 109, 41, 120, 2, 37, 104, 26, 80,
       117, 123, 99, 111, 78, 75, 32, 119, 32, 10, 58, 97, 46, 76, 78, 120,
       78, 65, 111, 122, 121, 41, 108, 8, 120, 108, 90, 38, 94, 127, 4, 65,
       95, 24, 54, 75, 58, 43, 90, 71, 36, 17, 75, 19, 102, 111, 38, 126, 98,
       0, 24, 64, 14, 5, 11, 10, 21, 10, 39, 121, 68, 71, 47, 97, 45, 120, 18,
       14, 85, 30, 27, 121, 53, 108, 1, 117, 124, 25, 69, 57, 63, 0, 98, 112,
       98, 51, 117, 32, 126, 12, 59, 46, 87, 19, 1, 1, 44, 112, 111, 41, 10,
       40, 83, 79, 13, 90, 122, 88, 20, 114, 73, 72, 71, 120, 13, 55, 119,
       106, 24, 53, 4, 9, 24, 116, 35, 95, 89, 91, 84, 35, 20, 52, 4, 55, 61,
       118, 12, 112, 46, 42, 68, 109, 66, 87, 83, 15, 0, 70, 92, 98, 69, 123,
       125, 38, 74, 54, 65, 20, 44, 126, 121, 87, 103, 126, 118, 24, 57, 20,
       61, 66, 21, 107, 64, 87, 61, 115, 119, 38, 47, 22, 33, 90, 85, 45, 125,
       43, 9, 74, 82, 113, 100, 10, 127, 34, 62, 118, 25, 16, 8, 16, 108, 63,
       110, 57, 44, 21, 75, 54, 45, 48, 63, 60, 31, 117, 42, 1, 116, 36, 105,
       117, 72, 18, 27, 51, 38, 118, 118, 41, 2, 1, 5, 36, 51, 37, 16, 77, 36,
       86, 53, 121, 117, 28, 64, 72, 88, 94, 34, 91, 13, 90, 108, 30, 70, 40,
       67, 85, 28, 100, 85, 95, 30, 40, 0, 19, 88, 99, 100, 71, 70, 123, 61,
       18, 22, 94, 123, 65, 102, 42, 118, 68, 40, 21, 16, 0, 95, 50, 39, 37,
       67, 126, 49, 47, 77, 77, 27, 95, 86, 53, 113, 84, 88, 46, 28, 54, 67,
       110, 62, 101, 58, 29, 56, 67, 78, 46, 96, 41, 63, 60, 53, 15, 5, 86,
       121, 47, 123, 18, 42, 67, 39, 22, 110, 76, 57, 46, 20, 23, 8, 15, 100,
       67, 64, 73, 39, 18, 5, 17, 56, 79, 65, 120, 108, 10, 14, 107, 87, 71,
       95, 23, 115, 100, 40, 115, 38, 47, 80, 74, 72, 72, 25, 80, 50, 20, 103,
       123, 125, 28, 34, 112, 34, 68, 77, 123, 117, 122, 25, 114, 116, 113,
       57, 110, 90, 102, 33, 17, 19, 68, 68, 99, 70, 22, 68, 37, 71, 24, 15,
       34, 50, 47, 10, 6, 64, 54, 106, 71, 51, 61, 77, 75, 15, 11, 10, 60, 67,
       66, 68, 58, 8, 55, 112, 120, 112, 120, 8, 103, 97, 82, 81, 126, 127,
       115, 30, 79, 23, 124, 98, 114, 118, 116, 20, 114, 117, 32, 18, 65, 94,
       55, 61, 9, 64, 26, 67, 90, 55, 36, 57, 51, 14, 48, 96, 127, 92, 110,
       65, 113, 13, 101, 60, 69, 106, 68, 88, 92, 76, 16, 68, 82, 17, 127,
       124, 127, 124, 18, 11, 63, 26, 15, 102, 60, 67, 43, 37, 47, 95, 77,
       107, 62, 61, 56, 64, 41, 34, 15, 77, 41, 51, 46, 7, 114, 77, 3, 32, 10,
       42, 14, 58, 79, 22, 19, 4, 118, 41, 73, 31, 104, 106, 100, 5, 89, 49,
       106, 106, 80, 122, 74, 81, 23, 105, 89, 69, 23, 98, 35, 12, 73, 72, 8,
       11, 78, 76, 107, 23, 95, 6, 104, 99, 87, 112, 78, 27, 83, 59, 98, 26,
       26, 70, 68, 58, 111, 9, 105, 50, 21, 11, 69, 113, 17, 65, 88, 27, 100,
       97, 82, 23, 31, 80, 83, 96, 71, 31, 49, 33, 47, 78, 71, 69, 70, 43, 82,
       40, 127, 109, 8, 106, 45, 90, 66, 50, 15, 6, 11, 54, 72, 61, 31, 116,
       80, 63, 7, 78, 111, 52, 98, 13, 45, 84, 75, 62, 108, 65, 97, 53, 8, 63,
       47, 63, 64, 86, 25, 0, 67, 14, 2, 6, 2, 69, 16, 69, 25, 83, 50, 76, 33,
       75, 88, 123, 56, 55, 33, 61, 36, 12, 97, 3, 111, 118, 82, 48, 121, 4,
       67, 79, 75, 34, 17, 7, 97, 55, 58, 13, 125, 111, 62, 23, 58, 41, 75,
       12, 15, 54, 43, 39, 42, 23, 36, 62, 44, 27, 106, 33, 103, 126, 39, 84,
       19, 118, 6, 81, 71, 28, 13, 56, 39, 26, 58, 5, 5, 54, 107, 22, 122,
       125, 116, 60, 78, 59, 109, 87, 113, 96, 122, 116, 59, 22, 127, 0, 49,
       84, 39, 87, 34, 43, 88, 5, 97, 67, 51, 61, 4, 62, 116, 47, 65, 101,
       107, 122, 66, 111, 93, 21, 56, 91, 50, 40, 89, 114, 31, 6, 112, 8, 80,
       121, 26, 89, 54, 6, 79, 69, 27, 63, 95, 6, 91, 14, 120, 38, 123, 45,
       31, 22, 120, 82, 56, 43, 24, 51, 72, 79, 16, 124, 56, 70, 43, 106, 47,
       58, 16, 47, 19, 102, 87, 26, 49, 55, 59, 30, 126, 77, 125, 119, 122,
       43, 70, 55, 102, 88, 23, 4, 71, 35, 35, 24, 47, 65, 31, 126, 91, 52,
       19, 87, 39, 74, 87, 92, 54, 41, 14, 97, 22, 17, 63, 52, 95, 19, 12, 69,
       117, 27, 93, 8, 76, 43, 79, 9, 78, 72, 53, 9, 55, 126, 98, 9, 95, 25,
       73, 97, 77, 99, 5, 90, 26, 85, 78, 82, 112, 24, 40, 13, 124, 112, 55,
       28, 92, 64, 27, 51, 41, 59, 25, 69, 34, 34, 21, 115, 8, 94, 5, 104, 51,
       72, 7, 104, 123, 34, 63, 98, 97, 18, 70, 65, 74, 119, 126, 0, 74, 112,
       23, 117, 125, 89, 123, 99, 60, 101, 13, 53, 66, 74, 97, 100, 65, 50,
       100, 0, 86, 8, 13, 12, 118, 21, 74, 61, 87, 47, 67, 86, 50, 37, 120,
       32, 118, 90, 59, 59, 80, 77, 79, 84, 97, 51, 113, 115, 40, 81, 47, 108,
       76, 1, 57, 45, 10, 116, 112, 14, 64, 99, 9, 41, 31, 32, 106, 54, 121,
       43, 126, 34, 19, 7, 2, 109, 27, 77, 78, 90, 102, 48, 97, 93, 20, 95, 5,
       20, 55, 65, 2, 3, 31, 2, 61, 56, 125, 85, 64, 8, 82, 71, 19, 112, 39,
       51, 110, 64, 14, 19, 44, 83, 67, 63, 100, 64, 74, 106, 31, 58, 48, 73,
       103, 38, 49, 2, 56, 92, 77, 77, 36, 30, 89, 47, 106, 2, 35, 42, 71, 64,
       58, 113, 68, 94, 126, 26, 125, 73, 21, 94, 77, 58, 28, 78, 84, 48, 12,
       48, 117, 118, 60, 56, 71, 123, 43, 35, 36, 90, 96, 3, 99, 53, 115, 106,
       42, 104, 105, 25, 103, 98, 17, 7, 44, 31, 33, 29, 55, 40, 78, 53, 69,
       28, 92, 68, 89, 51, 98, 105, 89, 99, 71, 78, 6, 10, 98, 38, 17, 53, 41,
       80, 55, 92, 125, 120, 80, 4, 105, 114, 62, 80, 126, 117, 25, 50, 58, 6,
       27, 22, 114, 67, 78, 106, 112, 88, 46, 70, 69, 72, 99, 75, 56, 41, 54,
       21, 97, 32, 99, 0, 42, 78, 124, 1, 54, 34, 40, 95, 117, 99, 30, 105,
       15, 54, 11, 25, 95, 48, 14, 105, 48, 8, 77, 98, 80, 112, 5, 116, 65,
       30, 112, 19, 79, 95, 61, 21, 81, 103, 75, 44, 55, 92, 5, 85, 9, 99,
       111, 45, 82, 86, 17, 7, 59, 7, 56, 71, 73, 79, 8, 113, 53, 48, 60, 23,
       19, 27, 84, 10, 75, 18, 2, 25, 80, 49, 68, 96, 101, 53, 101, 73, 24,
       94, 33, 101, 36, 33, 56, 50, 104, 66, 115, 103, 74, 120, 37, 19, 67,
       44, 114, 94, 127, 21, 105, 41, 14, 73, 97, 73, 55, 61, 94, 76, 45, 31,
       9, 102, 96, 126, 102, 78, 105, 39, 56, 14, 41, 15, 54, 59, 89, 22, 67,
       99, 54, 12, 102, 126, 32, 119, 104, 107, 63, 88, 14, 80, 60, 18, 109,
       64, 53, 18, 67, 55, 102, 31, 66, 90, 103, 122, 81, 113, 113, 52, 63,
       59, 40, 54, 119, 109, 54, 87, 86, 55, 54, 90, 25, 73, 106, 109, 30, 92,
       45, 113, 106, 124, 91, 116, 17, 8, 49, 57, 78, 91, 13, 125, 6, 23, 113,
       8, 115, 73, 80, 21, 4, 9, 117, 11, 93, 104, 81, 96, 49, 84, 113, 78,
       71, 86, 23, 15, 53, 61, 64, 11, 53, 55, 111, 99, 44, 100, 28, 29, 86,
       114, 8, 62, 93, 43, 78, 100, 100, 78, 44, 113, 49, 48, 10, 107, 49,
       100, 65, 40, 69, 60, 125, 80, 85, 80, 68, 39, 107, 92, 81, 21, 23, 116,
       57, 23, 55, 106, 114, 64, 92, 97, 41, 21, 81, 85, 32, 13, 125, 9, 25,
       125, 45, 62, 95, 87, 37, 71, 113, 119, 90, 57, 19, 0, 1, 83, 34, 105,
       58, 15, 6, 108, 73, 26, 95, 33, 74, 63, 106, 30, 82, 70, 8, 19, 63, 11,
       94, 56, 64, 13, 109, 33, 88, 0, 7, 94, 63, 65, 2, 62, 22, 66, 61, 112,
       21, 122, 104, 58, 96, 47, 103, 31, 5, 53, 34, 5, 4, 50, 77, 125, 78, 0,
       33, 54, 111, 44, 112, 28, 92, 25, 31, 102, 39, 87, 124, 96, 22, 101,
       96, 10, 114, 39, 12, 28, 111, 86, 71, 10, 102, 124, 75, 29, 101, 47, 9,
       11, 43, 6, 67, 37, 77, 1, 38, 49, 22, 46, 47, 114, 112, 113, 50, 33,
       79, 12, 96, 32, 24, 116, 104, 81, 119, 45, 71, 113, 24, 78, 12, 79,
       119, 20, 73, 15, 103, 3, 84, 34, 54, 88, 54, 125, 123, 115, 31, 123,
       82, 104, 94, 77, 56, 86, 21, 37, 75, 11, 22, 115, 37, 101, 50, 67, 72,
       45, 119, 77, 80, 127, 19, 6, 69, 104, 117, 117, 125, 40, 18, 121, 84,
       70, 26, 43, 101, 101, 34, 85, 27, 63, 122, 19, 114, 17, 53, 54, 66,
       120, 23, 21, 16, 104, 89, 72, 115, 78, 14, 47, 118, 27, 16, 15, 113,
       107, 116, 39, 31, 97, 58, 2, 76, 14, 13, 62, 122, 66, 92, 108, 65, 92,
       75, 0, 65, 83, 28, 21, 77, 119, 96, 82, 28, 16, 59, 113, 99, 78, 118,
       6, 34, 50, 49, 41, 108, 63, 9, 36, 111, 15, 31, 124, 11, 94, 41, 70,
       68, 65, 114, 124, 2, 28, 40, 117, 39, 55, 15, 98, 109, 63, 44, 59, 108,
       51, 124, 58, 55, 93, 19, 120, 99, 93, 22, 61, 120, 93, 110, 111, 61,
       71, 50, 46, 100, 22, 50, 2, 73, 110, 24, 79, 71, 91, 3, 47, 125, 85,
       82, 124, 75, 26, 43, 26, 33, 76, 94, 43, 27, 105, 116, 14, 65, 51, 100,
       83, 44, 56, 21, 117, 101, 113, 56, 46, 0, 52, 113, 89, 28, 113, 127,
       75, 127, 73, 20, 84, 83, 26, 35, 73, 59, 54, 75, 53, 112, 2, 57, 66,
       32, 123, 86, 120, 57, 80, 94, 33, 27, 119, 82, 81, 45, 49, 71, 90, 79,
       28, 51, 46, 65, 1, 97, 20, 3, 91, 74, 36, 83, 4, 11, 36, 99, 115, 108,
       102, 113, 77, 79, 54, 46, 70, 71, 1, 20, 111, 49, 116, 91, 99, 127, 95,
       87, 67, 127, 62, 31, 102, 77, 41, 73, 116, 32, 75, 86, 41, 66, 39, 50,
       122, 80, 11, 26, 81, 39, 49, 68, 114, 46, 116, 84, 24, 37, 86, 78, 126,
       107, 105, 118, 109, 118, 101, 91, 23, 23, 3, 112, 6, 117, 54, 8, 60,
       50, 61, 92, 54, 49, 126, 103, 108, 86, 47, 18, 94, 35, 21, 72, 69, 123,
       125, 19, 77, 97, 40, 53, 18, 82, 95, 106, 0, 82, 89, 60, 101, 39, 119,
       72, 46, 51, 27, 17, 60, 38, 54, 63, 89, 24, 83, 80, 96, 71, 123, 68,
       41, 2, 98, 37, 119, 36, 67, 11, 82, 98, 99, 124, 36, 116, 119, 76, 2,
       13, 64, 58, 125, 65, 97, 92, 31, 41, 35, 79, 124, 29, 70, 77, 8, 6, 29,
       76, 83, 60, 113, 75, 47, 12, 106, 12, 18, 105, 55, 70, 69, 86, 77, 37,
       12, 12, 49, 114, 87, 54, 21, 2, 126, 125, 75, 12, 51, 28, 124, 119, 34,
       120, 44, 40, 18, 79, 6, 101, 27, 77, 77, 10, 64, 14, 116, 121, 44, 102,
       15, 26, 93, 49, 120, 75, 35, 84, 11, 38, 120, 60, 25, 10, 119, 104, 65,
       92, 54, 17, 43, 17, 51, 119, 122, 101, 3, 80, 113, 102, 10, 0, 14, 113,
       28, 24, 97, 12, 6, 46, 126, 57, 0, 121, 96, 24, 17, 73, 118, 56, 126,
       106, 25, 92, 56, 50, 119, 52, 62, 94, 17, 61, 45, 107, 49, 87, 82, 98,
       21, 68, 115, 54, 112, 93, 63, 48, 3, 123, 118, 99, 37, 93, 14>>)
    @@
    (3814 :> <<
       115, 119, 0, 24, 89, 44, 96, 95, 88, 81, 0, 99, 78, 76, 101, 51, 59,
       45, 77, 108, 8, 55, 11, 51, 46, 93, 11, 116, 12, 78, 34, 76, 37, 123,
       42, 8, 31, 23, 71, 4, 18, 122, 49, 99, 27, 75, 22, 60, 87, 9, 68, 39,
       105, 96, 97, 125, 115, 6, 17, 26, 23, 80, 126, 79, 0, 70, 107, 45, 77,
       125, 125, 30, 70, 30, 36, 121, 70, 2, 114, 37, 58, 25, 61, 70, 94, 98,
       105, 16, 104, 124, 57, 14, 20, 41, 97, 45, 118, 55, 80, 32, 14, 108,
       17, 18, 84, 68, 104, 11, 124, 45, 117, 116, 84, 60, 106, 55, 93, 98,
       34, 44, 96, 120, 14, 94, 102, 79, 50, 107, 50, 111, 1, 25, 121, 105,
       72, 105, 100, 119, 53, 123, 46, 79, 64, 66, 30, 32, 81, 20, 20, 114,
       26, 85, 39, 41, 79, 24, 106, 86, 51, 35, 56, 104, 108, 85, 122, 97, 43,
       86, 104, 11, 31, 113, 117, 97, 62, 30, 102, 124, 97, 123, 119, 70, 38,
       7, 55, 5, 90, 69, 71, 42, 88, 5, 72, 9, 107, 95, 73, 14, 80, 53, 88,
       56, 118, 23, 116, 53, 7, 30, 98, 92, 76, 101, 44, 91, 40, 77, 60, 12,
       80, 49, 91, 11, 59, 56, 62, 18, 2, 63, 97, 66, 39, 56, 30, 23, 77, 84,
       124, 3, 113, 4, 65, 52, 17, 24, 8, 122, 10, 90, 59, 35, 74, 105, 98,
       51, 91, 95, 72, 58, 89, 25, 94, 79, 3, 65, 64, 30, 108, 49, 85, 74,
       123, 19, 110, 72, 122, 103, 40, 47, 50, 112, 57, 37, 79, 123, 20, 87,
       30, 67, 28, 10, 107, 110, 23, 75, 8, 109, 47, 20, 41, 115, 40, 47, 86,
       29, 4, 109, 9, 35, 84, 12, 3, 101, 101, 20, 105, 36, 95, 5, 49, 90, 26,
       126, 14, 109, 5, 25, 123, 55, 78, 120, 75, 78, 101, 75, 17, 74, 126,
       69, 66, 42, 17, 104, 60, 122, 27, 98, 46, 85, 28, 115, 50, 49, 45, 80,
       30, 17, 21, 126, 39, 46, 125, 55, 78, 109, 65, 0, 30, 95, 61, 117, 109,
       22, 82, 124, 27, 75, 29, 8, 127, 120, 98, 85, 14, 38, 18, 68, 35, 114,
       100, 115, 76, 32, 50, 7, 60, 23, 37, 67, 59, 65, 9, 92, 107, 11, 24,
       82, 33, 50, 89, 84, 37, 50, 121, 109, 115, 89, 85, 41, 54, 27, 84, 0,
       21, 50, 83, 106, 40, 98, 127, 79, 85, 20, 65, 18, 86, 77, 84, 30, 45,
       40, 114, 62, 62, 44, 51, 10, 64, 101, 36, 118, 114, 55, 119, 0, 1, 110,
       87, 97, 51, 56, 14, 38, 89, 98, 32, 55, 3, 53, 103, 11, 119, 75, 60,
       112, 26, 17, 86, 102, 125, 4, 122, 42, 13, 27, 96, 103, 30, 2, 61, 46,
       46, 64, 32, 90, 2, 125, 111, 104, 107, 127, 61, 81, 83, 25, 110, 69,
       12, 39, 4, 118, 45, 107, 60, 29, 76, 112, 121, 118, 12, 76, 82, 53, 2,
       6, 102, 84, 10, 118, 0, 5, 85, 115, 19, 73, 38, 47, 65, 95, 84, 26, 80,
       120, 75, 44, 74, 56, 8, 41, 50, 97, 35, 35, 63, 89, 41, 4, 82, 110,
       109, 22, 7, 100, 27, 78, 7, 121, 35, 9, 20, 89, 70, 73, 31, 80, 73, 43,
       83, 24, 79, 4, 86, 72, 43, 16, 113, 14, 33, 33, 90, 94, 6, 35, 111, 46,
       69, 0, 90, 89, 120, 41, 10, 63, 113, 89, 59, 48, 23, 30, 52, 23, 25,
       12, 27, 113, 38, 127, 68, 23, 7, 84, 104, 119, 43, 11, 68, 75, 3, 57,
       35, 64, 120, 77, 13, 69, 30, 38, 10, 71, 11, 19, 80, 121, 93, 21, 15,
       47, 9, 119, 90, 120, 68, 86, 126, 23, 27, 119, 58, 77, 35, 58, 86, 99,
       24, 117, 52, 120, 124, 62, 29, 34, 5, 119, 115, 12, 89, 94, 4, 126,
       124, 7, 0, 65, 4, 55, 108, 22, 98, 19, 18, 13, 92, 29, 63, 105, 121,
       65, 50, 111, 98, 127, 39, 70, 107, 96, 67, 112, 64, 33, 77, 46, 2, 105,
       52, 38, 82, 82, 50, 2, 79, 78, 60, 101, 104, 34, 62, 60, 27, 68, 30,
       55, 5, 125, 18, 13, 75, 40, 12, 123, 116, 39, 105, 87, 51, 62, 50, 25,
       80, 59, 49, 116, 28, 123, 28, 43, 65, 15, 127, 7, 22, 38, 39, 6, 127,
       110, 38, 64, 63, 44, 62, 125, 115, 21, 34, 47, 93, 34, 80, 17, 96, 63,
       15, 88, 126, 15, 120, 11, 29, 113, 42, 111, 67, 12, 47, 48, 85, 91,
       125, 104, 118, 36, 40, 30, 15, 11, 8, 77, 24, 124, 109, 112, 70, 73, 4,
       47, 126, 120, 25, 26, 3, 35, 90, 20, 3, 125, 7, 0, 8, 120, 114, 2, 114,
       101, 53, 69, 54, 60, 105, 67, 104, 88, 49, 98, 82, 52, 42, 83, 104, 44,
       11, 52, 18, 67, 27, 52, 104, 4, 27, 86, 81, 103, 64, 102, 107, 68, 101,
       58, 89, 91, 14, 55, 101, 27, 85, 46, 109, 11, 118, 36, 106, 127, 78, 3,
       87, 23, 64, 38, 3, 74, 74, 118, 4, 60, 19, 91, 28, 10, 15, 118, 109,
       83, 125, 14, 59, 78, 114, 75, 17, 4, 39, 65, 90, 109, 6, 47, 41, 126,
       76, 80, 116, 41, 54, 49, 91, 61, 25, 80, 66, 28, 125, 53, 91, 32, 68,
       19, 119, 122, 37, 8, 94, 62, 63, 93, 61, 11, 6, 71, 8, 2, 44, 74, 16,
       100, 44, 85, 86, 116, 7, 90, 53, 26, 109, 3, 42, 75, 24, 94, 3, 66, 3,
       85, 13, 107, 127, 18, 75, 124, 55, 102, 96, 14, 93, 11, 44, 50, 27, 9,
       80, 120, 76, 76, 106, 126, 82, 88, 127, 13, 17, 10, 121, 48, 52, 1,
       104, 1, 106, 90, 118, 49, 8, 120, 87, 114, 120, 45, 7, 3, 7, 79, 117,
       126, 112, 13, 39, 54, 42, 44, 102, 4, 46, 33, 64, 9, 25, 48, 86, 1, 19,
       59, 27, 58, 116, 56, 78, 49, 35, 32, 98, 86, 19, 60, 66, 116, 65, 113,
       96, 41, 90, 95, 45, 84, 42, 36, 124, 54, 111, 78, 24, 107, 37, 1, 42,
       84, 70, 124, 6, 108, 103, 46, 95, 0, 58, 96, 8, 114, 34, 125, 126, 34,
       112, 85, 10, 67, 26, 77, 32, 102, 123, 41, 16, 71, 79, 96, 58, 7, 68,
       39, 120, 28, 78, 13, 64, 112, 37, 18, 42, 37, 116, 71, 106, 127, 51,
       62, 31, 47, 105, 66, 12, 116, 100, 69, 123, 26, 77, 4, 57, 6, 14, 108,
       110, 34, 16, 107, 124, 100, 13, 80, 120, 94, 28, 126, 38, 96, 13, 3,
       26, 101, 94, 18, 40, 44, 14, 55, 5, 16, 25, 33, 51, 67, 112, 104, 22,
       112, 60, 5, 71, 9, 19, 95, 85, 84, 84, 41, 102, 87, 84, 56, 81, 2, 31,
       1, 49, 43, 80, 4, 33, 112, 98, 54, 56, 107, 15, 25, 8, 19, 99, 126,
       113, 83, 123, 38, 29, 22, 118, 53, 127, 10, 8, 36, 89, 79, 118, 91,
       114, 117, 6, 40, 42, 63, 75, 101, 85, 13, 2, 112, 22, 100, 10, 70, 92,
       36, 74, 97, 124, 3, 109, 22, 111, 35, 83, 56, 114, 96, 41, 10, 80, 49,
       37, 8, 16, 79, 104, 108, 125, 31, 7, 45, 32, 91, 93, 92, 38, 123, 127,
       100, 54, 52, 16, 102, 0, 21, 17, 102, 85, 18, 82, 91, 65, 67, 2, 113,
       64, 6, 13, 91, 86, 46, 86, 34, 124, 99, 65, 52, 51, 102, 78, 120, 19,
       99, 98, 87, 17, 105, 92, 59, 33, 78, 22, 14, 82, 46, 77, 114, 68, 83,
       61, 76, 70, 18, 20, 127, 63, 97, 40, 89, 74, 127, 104, 67, 39, 104,
       114, 21, 91, 52, 100, 51, 23, 38, 38, 105, 109, 62, 125, 57, 10, 16,
       75, 15, 46, 19, 30, 80, 12, 49, 102, 91, 42, 12, 123, 16, 76, 116, 59,
       86, 124, 42, 75, 69, 67, 106, 41, 71, 34, 103, 63, 121, 109, 37, 46,
       110, 92, 93, 118, 1, 19, 48, 57, 32, 75, 51, 126, 65, 21, 87, 27, 52,
       44, 13, 86, 25, 82, 29, 57, 21, 116, 125, 65, 32, 104, 14, 123, 15,
       108, 6, 126, 100, 74, 107, 14, 55, 86, 55, 111, 21, 110, 113, 91, 74,
       24, 112, 61, 66, 68, 104, 11, 23, 31, 47, 76, 101, 98, 42, 67, 90, 70,
       121, 45, 12, 63, 0, 92, 104, 92, 67, 94, 49, 104, 81, 34, 2, 82, 11, 6,
       91, 31, 117, 109, 70, 49, 75, 79, 102, 50, 64, 40, 89, 39, 120, 70, 29,
       108, 34, 26, 98, 27, 116, 107, 108, 34, 89, 22, 59, 119, 62, 43, 25,
       106, 22, 41, 41, 108, 42, 23, 113, 103, 99, 116, 120, 93, 70, 60, 72,
       100, 24, 127, 87, 67, 32, 42, 120, 75, 44, 50, 44, 26, 17, 54, 19, 126,
       5, 91, 0, 102, 19, 47, 12, 104, 123, 50, 10, 72, 17, 35, 56, 120, 42,
       105, 69, 78, 18, 89, 0, 44, 27, 28, 73, 38, 81, 9, 45, 67, 120, 96, 56,
       26, 76, 113, 28, 71, 8, 102, 28, 91, 88, 14, 99, 57, 16, 19, 100, 33,
       97, 48, 119, 28, 60, 45, 65, 112, 113, 73, 95, 60, 28, 40, 41, 12, 99,
       2, 19, 6, 75, 30, 119, 14, 100, 124, 112, 59, 111, 10, 58, 109, 111,
       71, 100, 67, 68, 92, 88, 99, 105, 5, 36, 94, 40, 31, 99, 111, 56, 6,
       109, 48, 80, 10, 42, 11, 109, 30, 102, 13, 38, 126, 65, 124, 38, 101,
       80, 2, 66, 125, 97, 5, 85, 31, 26, 66, 79, 107, 12, 53, 77, 86, 92, 9,
       80, 77, 97, 75, 95, 2, 58, 46, 112, 25, 109, 43, 5, 34, 113, 60, 2, 91,
       21, 86, 28, 115, 123, 15, 14, 104, 50, 72, 18, 85, 33, 65, 116, 72, 95,
       3, 118, 50, 88, 6, 46, 96, 54, 98, 63, 66, 24, 84, 109, 67, 66, 63, 64,
       85, 64, 114, 67, 84, 110, 13, 43, 5, 19, 42, 127, 106, 126, 53, 125,
       67, 88, 112, 111, 0, 119, 12, 52, 90, 108, 16, 85, 49, 100, 33, 19, 22,
       44, 72, 114, 25, 114, 62, 48, 70, 33, 109, 70, 34, 54, 74, 38, 100, 20,
       66, 14, 72, 46, 124, 34, 110, 99, 108, 51, 72, 3, 72, 53, 126, 96, 0,
       11, 98, 28, 41, 17, 26, 18, 82, 48, 79, 76, 67, 113, 71, 56, 76, 29,
       20, 3, 121, 53, 120, 29, 127, 112, 14, 21, 115, 16, 65, 98, 86, 11, 48,
       98, 31, 65, 26, 12, 24, 66, 56, 121, 80, 16, 50, 22, 89, 29, 94, 81, 0,
       84, 106, 113, 118, 42, 124, 6, 37, 12, 10, 43, 8, 9, 124, 23, 81, 127,
       90, 85, 10, 26, 64, 14, 98, 64, 10, 8, 37, 16, 95, 36, 35, 0, 120, 75,
       36, 60, 13, 1, 25, 33, 59, 52, 66, 61, 51, 0, 15, 56, 36, 15, 1, 125,
       69, 81, 119, 108, 7, 3, 74, 4, 6, 107, 63, 114, 127, 76, 33, 85, 81,
       121, 66, 76, 13, 28, 95, 79, 36, 3, 43, 64, 19, 59, 59, 87, 102, 63,
       56, 124, 39, 15, 107, 34, 93, 26, 102, 95, 64, 54, 105, 76, 29, 5, 34,
       14, 42, 46, 15, 32, 40, 62, 99, 103, 83, 109, 32, 8, 95, 33, 30, 89,
       94, 39, 104, 23, 120, 122, 26, 25, 60, 19, 73, 17, 121, 91, 99, 127,
       27, 122, 41, 114, 114, 48, 51, 19, 71, 96, 48, 15, 42, 76, 29, 39, 121,
       6, 50, 106, 12, 82, 102, 11, 58, 66, 97, 117, 60, 76, 121, 107, 13, 92,
       22, 77, 24, 104, 32, 15, 21, 32, 62, 1, 5, 3, 53, 13, 106, 92, 116, 74,
       117, 55, 57, 95, 74, 79, 4, 25, 15, 121, 60, 72, 100, 73, 67, 57, 120,
       80, 35, 115, 58, 37, 91, 110, 6, 116, 107, 115, 96, 12, 22, 26, 52, 23,
       44, 121, 48, 61, 106, 17, 52, 123, 47, 59, 62, 17, 8, 48, 123, 37, 108,
       58, 59, 79, 9, 12, 51, 65, 0, 91, 29, 30, 41, 9, 68, 53, 2, 36, 89, 93,
       92, 118, 105, 91, 67, 23, 112, 77, 65, 1, 79, 42, 9, 50, 75, 15, 117,
       75, 125, 72, 62, 30, 65, 79, 7, 46, 29, 71, 49, 8, 93, 13, 60, 67, 110,
       86, 11, 111, 17, 11, 73, 90, 121, 37, 112, 116, 8, 121, 40, 47, 16, 81,
       103, 18, 62, 7, 107, 124, 77, 122, 38, 103, 62, 14, 91, 85, 101, 9, 74,
       32, 84, 77, 69, 89, 99, 94, 125, 15, 7, 19, 73, 64, 89, 52, 47, 108,
       103, 23, 74, 48, 76, 13, 127, 1, 58, 125, 122, 80, 83, 87, 59, 38, 109,
       121, 126, 31, 118, 89, 111, 75, 0, 117, 99, 119, 29, 106, 54, 104, 105,
       121, 94, 44, 6, 41, 67, 69, 112, 68, 96, 29, 67, 113, 18, 76, 46, 62,
       52, 39, 12, 11, 7, 112, 51, 16, 81, 118, 43, 61, 85, 28, 28, 104, 52,
       84, 66, 120, 92, 65, 115, 91, 11, 83, 44, 15, 115, 27, 39, 103, 43, 82,
       78, 49, 10, 111, 45, 57, 39, 0, 110, 6, 98, 62, 35, 120, 107, 19, 84,
       56, 70, 67, 60, 105, 58, 86, 49, 11, 2, 50, 106, 89, 44, 111, 112, 122,
       112, 13, 79, 108, 68, 63, 6, 104, 60, 110, 94, 60, 59, 61, 76, 59, 54,
       26, 95, 16, 42, 41, 29, 8, 56, 16, 38, 38, 65, 51, 2, 18, 72, 60, 24,
       16, 51, 79, 15, 78, 60, 61, 88, 64, 80, 108, 20, 71, 111, 31, 70, 110,
       81, 86, 120, 5, 109, 29, 122, 109, 0, 122, 58, 114, 21, 117, 5, 101,
       126, 101, 48, 38, 60, 110, 96, 66, 26, 3, 2, 65, 70, 30, 50, 78, 77,
       109, 91, 38, 44, 54, 92, 76, 95, 2, 55, 90, 38, 82, 108, 53, 0, 33, 29,
       68, 53, 104, 81, 71, 77, 66, 102, 25, 118, 58, 126, 25, 91, 58, 85, 50,
       84, 66, 122, 74, 103, 115, 83, 35, 50, 50, 103, 126, 80, 35, 60, 48,
       94, 72, 12, 12, 1, 96, 124, 28, 17, 100, 83, 13, 46, 115, 121, 24, 103,
       21, 76, 22, 95, 121, 127, 89, 55, 115, 18, 69, 104, 94, 81, 29, 118,
       45, 51, 118, 117, 105, 50, 77, 48, 87, 122, 21, 97, 99, 71, 81, 54, 55,
       26, 83, 64, 24, 52, 111, 95, 6, 42, 103, 16, 106, 47, 34, 3, 70, 44,
       69, 61, 50, 41, 9, 86, 22, 94, 17, 101, 67, 32, 5, 81, 127, 97, 91,
       121, 11, 64, 65, 123, 0, 125, 61, 78, 14, 13, 78, 65, 2, 124, 114, 74,
       80, 67, 67, 39, 93, 123, 118, 79, 88, 4, 88, 18, 75, 108, 92, 29, 115,
       25, 98, 11, 125, 20, 122, 70, 38, 19, 6, 51, 1, 36, 53, 67, 79, 120,
       74, 42, 93, 67, 109, 20, 107, 37, 63, 65, 113, 14, 55, 74, 100, 22, 13,
       2, 16, 26, 53, 5, 74, 3, 29, 11, 89, 64, 119, 70, 44, 90, 55, 6, 17,
       23, 105, 37, 74, 61, 44, 56, 78, 12, 97, 63, 40, 92, 20, 120, 93, 106,
       5, 85, 16, 62, 50, 107, 99, 117, 39, 43, 103, 81, 76, 111, 54, 21, 119,
       36, 87, 26, 44, 101, 113, 21, 114, 6, 50, 41, 102, 82, 30, 9, 80, 5,
       45, 105, 10, 44, 16, 25, 17, 72, 58, 19, 20, 25, 38, 66, 48, 38, 0, 42,
       95, 112, 100, 11, 97, 25, 19, 59, 63, 106, 16, 124, 2, 121, 43, 62, 41,
       59, 83, 3, 71, 120, 108, 14, 3, 67, 27, 43, 43, 16, 55, 86, 53, 61, 58,
       124, 85, 51, 90, 37, 86, 8, 43, 56, 6, 1, 6, 39, 64, 48, 45, 42, 15,
       92, 5, 65, 48, 32, 38, 38, 58, 125, 26, 76, 35, 69, 2, 114, 14, 11, 24,
       68, 45, 97, 102, 55, 109, 42, 52, 104, 59, 8, 20, 12, 4, 36, 70, 20,
       77, 102, 122, 2, 101, 32, 48, 125, 94, 99, 49, 14, 30, 21, 113, 98, 14,
       56, 49, 85, 12, 13, 28, 17, 3, 20, 16, 48, 58, 91, 64, 125, 1, 5, 25,
       35, 63, 61, 112, 109, 75, 67, 14, 98, 63, 36, 19, 60, 107, 102, 46, 98,
       47, 20, 122, 55, 56, 56, 100, 113, 85, 2, 120, 63, 50, 15, 27, 75, 24,
       91, 100, 103, 121, 112, 81, 0, 116, 67, 5, 61, 117, 69, 56, 89, 71,
       122, 111, 111, 105, 62, 0, 42, 109, 21, 68, 62, 29, 99, 20, 54, 65, 9,
       40, 127, 29, 47, 125, 120, 36, 21, 121, 55, 70, 11, 111, 37, 76, 72,
       14, 8, 82, 47, 61, 54, 59, 41, 100, 43, 3, 94, 90, 111, 25, 20, 29, 4,
       26, 16, 34, 70, 56, 109, 85, 17, 37, 22, 52, 59, 39, 116, 65, 100, 92,
       36, 92, 32, 80, 30, 54, 74, 42, 36, 49, 50, 54, 64, 22, 88, 44, 116,
       79, 37, 80, 39, 98, 31, 82, 33, 11, 29, 23, 109, 75, 76, 55, 99, 79,
       126, 12, 42, 76, 110, 66, 106, 104, 113, 18, 7, 109, 62, 18, 117, 24,
       73, 97, 23, 49, 5, 19, 54, 85, 65, 88, 3, 100, 113, 73, 62, 110, 26,
       55, 32, 112, 17, 114, 65, 17, 39, 97, 9, 111, 16, 113, 81, 52, 102, 58,
       60, 57, 103, 105, 85, 126, 81, 57, 44, 122, 35, 88, 38, 124, 38, 109,
       70, 11, 77, 33, 104, 43, 46, 7, 55, 10, 65, 40, 93, 27, 35, 72, 49, 31,
       56, 32, 32, 52, 6, 32, 40, 103, 57, 4, 101, 122, 99, 102, 116, 29, 126,
       118, 70, 16, 58, 20, 44, 85, 53, 102, 7, 80, 113, 28, 5, 73, 37, 6, 36,
       6, 103, 16, 88, 125, 91, 42, 33, 0, 16, 42, 30, 123, 117, 47, 103, 89,
       88, 13, 60, 47, 30, 37, 48, 87, 109, 42, 33, 87, 2, 10, 66, 18, 57, 43,
       66, 82, 30, 48, 69, 120, 15, 83, 45, 33, 17, 12, 65, 17, 110, 23, 115,
       76, 23, 126, 67, 56, 14, 81, 30, 49, 70, 127, 77, 27, 35, 71, 91, 103,
       5, 3, 80, 13, 71, 55, 119, 17, 66, 40, 20, 110, 5, 124, 32, 123, 119,
       37, 23, 9, 96, 46, 115, 69, 101, 55, 112, 126, 54, 80, 23, 45, 113, 58,
       79, 102, 29, 124, 62, 46, 30, 1, 85, 104, 108, 14, 42, 89, 35, 30, 55,
       92, 56, 101, 24, 84, 114, 24, 55, 120, 42, 73, 27, 9, 127, 54, 111, 92,
       40, 32, 110, 48, 7, 32, 20, 72, 26, 67, 2, 33, 93, 33, 75, 35, 42, 89,
       97, 87, 25, 118, 77, 65, 29, 38, 56, 31, 20, 126, 29, 97, 11, 40, 47,
       102, 90, 116, 93, 9, 8, 40, 99, 14, 88, 82, 29, 101, 52, 118, 42, 68,
       61, 11, 86, 9, 17, 61, 12, 71, 102, 18, 79, 107, 98, 101, 99, 99, 83,
       42, 88, 39, 12, 109, 62, 79, 2, 100, 103, 11, 41, 64, 37, 61, 89, 53,
       121, 9, 7, 65, 3, 104, 41, 71, 13, 0, 116, 64, 31, 65, 87, 72, 75, 105,
       86, 37, 79, 109, 112, 88, 121, 47, 13, 20, 94, 46, 117, 51, 79, 75, 36,
       86, 91, 89, 36, 1, 22, 82, 96, 43, 79, 56, 113, 5, 24, 116, 54, 7, 66,
       15, 88, 112, 104, 42, 92, 113, 121, 111, 60, 119, 55, 109, 17, 103, 89,
       14, 77, 73, 34, 21, 109, 3, 126, 91, 95, 70, 45, 122, 122, 5, 67, 112,
       32, 40, 89, 60, 91, 63, 83, 37, 121, 99, 31, 115, 47, 48, 46, 60, 11,
       113, 43, 83, 126, 59, 113, 28, 73, 63, 121, 29, 72, 124, 97, 3, 50, 23,
       77, 120, 50, 126, 36, 79, 2, 36, 65, 28, 77, 52, 90, 108, 121, 49, 78,
       117, 74, 0, 86, 91, 80, 52, 76, 74, 23, 58, 89, 94, 60, 28, 120, 73,
       103, 67, 73, 7, 31, 112, 105, 57, 21, 47, 62, 98, 19, 4, 113, 104, 49,
       53, 103, 51, 61, 96, 70, 12, 2, 67, 88, 57, 68, 42, 47, 8, 10, 0, 8, 6,
       52, 6, 56, 60, 107, 28, 63, 7, 37, 27, 43, 113, 96, 48, 114, 6, 83,
       112, 3, 57, 119, 66, 69, 40, 112, 118, 113, 69, 121, 21, 57, 24, 105,
       109, 47, 63, 64, 92, 52, 0, 118, 33, 106, 121, 48, 15, 72, 18, 79, 50,
       103, 115, 109, 24, 22, 99, 40, 32, 0, 69, 61, 19, 112, 44, 108, 111,
       88, 13, 105, 6, 87, 123, 107, 107, 68, 112, 87, 110, 113, 110, 80, 53,
       46, 122, 2, 75, 111, 46, 28, 29, 121, 100, 49, 61, 6, 60, 3, 62, 43,
       87, 13, 77, 70, 108, 108, 49, 48, 105, 104, 16, 127, 103, 2, 14, 82,
       14, 78, 69, 24, 122, 13, 36, 45, 45, 69, 50, 52, 77, 121, 4, 121, 100,
       118, 67, 27, 69, 17, 100, 43, 127, 57, 47, 89, 17, 17, 60, 12, 125, 78,
       74, 27, 12, 69, 20, 35, 40, 88, 115, 63, 112, 58, 51, 52, 101, 2, 37,
       97, 26, 44, 95, 114, 68, 41, 32, 111, 98, 64, 11, 43, 88, 53, 31, 75,
       71, 2, 88, 54, 66, 122, 77, 105, 92, 34, 58, 28, 22, 49, 16, 127, 74,
       107, 89, 53, 62, 74, 100, 50, 95, 32, 108, 18, 53, 27, 113, 106, 33,
       98, 47, 32, 0, 75, 126, 108, 26, 28, 46, 19, 14, 94, 7, 122, 86, 24, 8,
       11, 116, 120, 59, 58, 1, 94, 101, 59, 98, 26, 42, 96, 36, 21, 0, 64,
       54, 7, 15, 84, 41, 50, 27, 33, 28, 99, 37, 97, 72, 125, 118, 111, 112,
       30, 126, 15, 91, 110, 53, 50, 71, 62, 124, 53, 127, 126, 72, 5, 23,
       122, 2, 105, 84, 24, 105, 34, 63, 126, 84, 54, 53, 90, 68, 105, 118,
       107, 74, 121, 55, 9, 113, 30, 0, 19, 93, 6, 98, 21, 97, 21, 97, 103,
       26, 25, 93, 79, 41, 127, 9, 30, 25, 85, 48, 39, 59, 36, 114, 68, 93,
       29, 87, 10, 79, 43, 115, 16, 100, 65, 117, 82, 67, 18, 65, 117, 89, 32,
       52, 31, 108, 71, 1, 5, 110, 80, 72, 8, 97, 84, 88, 4, 83, 67, 58, 14,
       73, 73, 68, 46, 48, 48, 16, 72, 96, 37, 104, 20, 24, 75, 41, 8, 117,
       84, 81, 49, 75, 7, 6, 74, 49, 47, 22, 7, 77, 57, 87, 106, 123, 14, 41,
       72, 34, 53, 56, 92, 109, 69, 27, 122, 46, 91, 10, 9, 43, 67, 17, 85,
       125, 2, 39, 88, 54, 26, 70, 12, 122, 31, 77, 56, 56, 43, 13, 95, 46,
       91, 17, 122, 11, 7, 111, 24, 10, 87, 107, 56, 35, 123, 97, 124, 79, 61,
       113, 113, 21, 88, 19, 22, 101, 11, 88, 78, 83, 46, 98, 69, 66, 95, 0,
       11, 21, 74, 68, 30, 13, 52, 89, 67, 89, 15, 42, 118, 3, 126, 108, 79,
       58, 17, 82, 33, 7, 25, 8, 107, 57, 44, 10, 77, 40, 126, 48, 87, 77, 30,
       20, 46, 26, 32, 62, 39, 69, 85, 24, 107, 7, 8, 73, 7, 85, 86, 69, 103,
       38, 126, 69, 54, 119, 70, 1, 12, 111, 123, 51, 55, 82, 28, 87, 52, 90,
       77, 57, 73, 14, 5, 104, 4, 15, 57, 67, 97, 26, 66, 118, 68, 70, 77, 46,
       46, 3, 63, 47, 54, 109, 30, 101, 110, 34, 79, 75, 78, 44, 51, 10, 82,
       45, 76, 54, 87, 85, 44, 18, 28, 103, 65, 55, 3, 76, 117, 101, 31, 44,
       41, 80, 94, 3, 31, 106, 67, 116, 57, 87, 95, 49, 10, 60, 30, 71, 97,
       63, 50, 76, 42, 60, 52, 86, 119, 63, 29, 88, 15, 116, 7, 15, 119, 50,
       72, 20, 109, 36, 59, 63, 44, 115, 101, 103, 49, 107, 99, 65, 36, 95,
       75, 86, 66, 70, 55, 90, 58, 41, 64, 113, 99, 101, 71, 31, 27, 59, 101,
       33, 10, 123, 119, 2, 123, 112, 112, 66, 89, 78, 11, 55, 3, 11, 13, 120,
       10, 5, 101, 85, 62, 64, 112, 12, 33, 84, 78, 7, 108, 91, 122, 43, 30,
       114, 82, 25, 125, 108, 78, 36, 53, 98, 39, 47, 42, 68, 5, 100, 4, 114,
       93, 122, 46, 31, 35, 22, 32, 37, 120, 75, 127, 5, 111, 7, 76, 116, 96,
       47, 48, 105, 126, 32, 96, 65, 82, 9, 38, 78, 92, 101, 115, 48, 61, 74,
       127, 4, 71, 105, 38, 123, 21, 50, 18, 13, 37, 108, 90, 48, 22, 90, 0,
       126, 5, 89, 25, 53, 29, 120, 107, 113, 10, 5, 39, 12, 92, 11, 103, 98,
       52, 100, 60, 34, 87, 95, 100, 124, 89, 53, 64, 25, 90, 95, 90, 43, 81,
       58, 89, 92, 118, 15, 73, 126, 4, 21, 53, 60, 47, 65, 25, 69, 18, 73,
       127, 8, 16, 58, 21, 32, 24, 75, 3, 88, 32, 29, 1, 41, 111, 10, 99, 106,
       88, 122, 75, 82, 101, 77, 82, 95, 36, 64, 62, 8, 89, 20, 70, 84, 89, 4,
       83, 116, 41, 123, 15, 119, 25, 44, 71, 23, 87, 34, 94, 115, 28, 100,
       79, 2, 77, 37, 80, 126, 69, 76, 15, 44, 10, 26, 106, 61, 68, 94, 91,
       123, 36, 22, 53, 2, 45, 85, 49, 69, 107, 8, 126, 76, 75, 35, 3, 90, 68,
       51, 102, 38, 66, 84, 110, 90, 107, 0, 71, 66, 56, 19, 24, 127, 22, 118,
       92, 5, 88, 39, 29, 106, 74, 66, 53, 77, 2, 60, 44, 113, 21, 50, 51,
       123, 44, 99, 7, 1, 74, 81, 0, 83, 22, 81, 58, 34, 115, 78, 14, 57, 35,
       76, 80, 16, 119, 64, 88, 124, 32, 122, 69, 65, 45, 118, 36, 22, 86, 35,
       51, 43, 93, 74, 65, 29, 59, 96, 3, 4, 22, 110, 121, 23, 78, 107, 38,
       101, 47, 63, 70, 72, 14, 18, 127, 121, 89, 62, 57, 36, 41, 86, 5, 6,
       59, 122, 3, 126, 25, 124, 113, 126, 62, 106, 21, 73, 37, 114, 24, 12,
       46, 86, 27, 111, 53, 13, 8, 86, 18, 5, 39, 76, 125, 112, 73, 56, 62,
       30, 122, 20, 58, 4, 114, 81, 20, 9, 41, 81, 52, 70, 89, 68, 43, 86, 21,
       49, 117, 125, 20, 114, 7, 81, 13, 11, 122, 34, 76, 58, 9, 22, 125, 84,
       106, 118, 71, 77, 124, 121, 99, 77, 101, 56, 31, 23, 105, 27, 12, 49,
       47, 51, 28, 8, 28, 89, 86, 114, 34, 32, 78, 76, 46, 107, 45, 105, 53,
       102, 4, 8, 125, 121, 121, 72, 35, 48, 99, 79, 48, 0, 65, 45, 50, 105,
       82, 52, 35, 72, 1, 115, 71, 61, 97, 89, 88, 76, 48, 80, 68, 58, 29,
       108, 16, 126, 7, 74, 2, 15, 50, 5, 56, 68, 34, 116, 104, 28, 122, 96,
       95, 123, 73, 52, 20, 54, 0, 43, 46, 93, 99, 64, 11, 90, 97, 53, 84, 77,
       51, 76, 106, 68, 40, 109, 112, 103, 72, 90, 36, 69, 68, 60, 75, 51,
       112, 67, 93, 65, 103, 103, 54, 41, 21, 117, 63, 77, 45, 54, 77, 58, 15,
       11, 56, 75, 105, 123, 3, 87, 72, 3, 87, 40, 68, 42, 27, 126, 121, 0,
       64, 17, 88, 114, 56, 38, 92, 3, 108, 105, 27, 45, 24, 4, 13, 30, 71,
       112, 19, 89, 33, 25, 103, 83, 3, 67, 16, 26, 78, 94, 51, 51, 59, 62,
       125, 6, 18, 93, 75, 34, 5, 16, 108, 31, 124, 26, 13, 63, 15, 52, 71,
       33, 97, 101, 115, 13, 83, 118, 53, 101, 109, 76, 126, 126, 66, 49, 51,
       25, 35, 64, 80, 31, 46, 46, 41, 9, 53, 56, 38, 19, 75, 101, 30, 22,
       122, 55, 112, 116, 80, 39, 9, 6, 72, 107, 106, 74, 43, 112, 0, 25, 86,
       59, 83, 39, 73, 90, 94, 33, 60, 37, 36, 113, 34, 68, 61, 111, 8, 37,
       61, 32, 60, 1, 22, 53, 76, 13, 88, 76, 27, 98, 63, 101, 91, 63, 20, 17,
       6, 126, 82, 109, 55, 63, 73, 79, 16, 26, 15, 40, 70, 37, 1, 82, 90,
       115, 74, 88, 112, 44, 81, 6, 0, 91, 53, 21, 47, 3, 115, 60, 16, 84, 36,
       101, 120, 86, 22, 1, 81, 105, 23, 93, 105, 87, 72, 11, 42, 120, 2, 95,
       27, 88, 112, 57, 4, 125, 72, 46, 100, 17, 96, 48, 52, 102, 89, 50, 38,
       111, 45, 72, 39, 121, 121, 19, 71, 76, 33, 93, 68, 35, 38, 126, 66, 71,
       62, 71, 83, 107, 114, 121, 83, 0, 61, 36, 4, 40, 122, 70, 126, 95, 31,
       115, 62, 6, 111, 101, 40, 46, 73, 112, 59, 95, 81, 86, 126, 75, 118,
       117, 100, 60, 81, 43, 19, 4, 89, 59, 92, 58, 69, 102, 25, 69, 78, 5,
       27, 98, 61, 52, 86, 68, 126, 116, 31, 38, 79, 101, 27, 55, 87, 29, 112,
       32, 15, 26, 77, 44, 122, 46, 122, 75, 32, 8, 62, 92, 15, 38, 114, 83,
       43, 1, 20, 17, 62, 65, 89, 105, 115, 63, 82, 49, 67, 117, 57, 64, 13,
       28, 62, 106, 100, 24, 86, 11, 73, 98, 81, 93, 23, 0, 14, 108, 39, 85,
       69, 19, 51, 47, 55, 42, 82, 44, 5, 53, 55, 44, 110, 6, 8, 91, 15, 113,
       70, 120, 99, 71, 32, 7, 124, 85, 83, 74, 13, 17, 119, 13, 49, 106, 32,
       45, 42, 113, 35, 115, 86, 73, 24, 7, 52, 26, 48, 61, 97, 73, 90, 51,
       113, 84, 72, 105, 44, 16, 90, 98, 12, 117, 79, 28, 23, 47, 76, 9, 113,
       72, 127, 23, 48, 86, 28, 16, 95, 80, 87, 106, 120, 73, 89, 46, 56, 96,
       118, 24, 42, 56, 1, 61, 10, 18, 91, 56, 29, 28, 104, 18, 55, 53, 93, 1,
       28, 20, 47, 126, 16, 66, 49, 18, 38, 54, 59, 34, 120, 74, 89, 103, 9,
       51, 69, 68, 80, 107, 105, 49, 57, 55, 126, 48, 25, 2, 118, 58, 90, 5,
       54, 39, 10, 104, 43, 122, 121, 55, 53, 127, 99, 73, 113, 47, 66, 110,
       120, 97, 103, 62, 5, 81, 98, 26, 103, 32, 124, 30, 114, 101, 113, 57,
       42, 49, 18, 119, 90, 102, 97, 34, 43, 16, 48, 23, 42, 76, 112, 97, 118,
       77, 83, 1, 96, 68, 79, 55, 104, 74, 56, 21, 84, 86, 57, 43, 95, 109, 7,
       109, 65, 53, 29, 124, 29, 109, 89, 98, 49, 16, 60, 80, 97, 114, 124,
       65, 105, 15, 120, 36, 69, 80, 61, 7, 13, 30, 53, 45, 37, 43, 2, 46, 1,
       38, 10, 8, 68, 34, 17, 65, 59, 106, 49, 43, 58, 65, 68, 126, 29, 100,
       107, 36, 62, 8, 41, 16, 99, 126, 56, 93, 28, 85, 1, 55, 2, 79, 91, 52,
       85, 18, 40, 44, 12, 78, 2, 108, 76, 85, 96, 105, 9, 123, 13, 45, 69,
       110, 99, 127, 120, 73, 23, 29, 56, 5, 119, 127, 52, 104, 65, 72, 116,
       10, 102, 17, 120, 88, 90, 110, 119, 112, 120, 108, 0, 13, 84, 118, 108,
       98, 62, 63, 21, 113, 23, 127, 125, 91, 100, 8, 65, 20, 6, 45, 88, 18,
       16, 25, 34, 13, 30, 37, 48, 93, 79, 82, 51, 53, 39, 67, 17, 42, 77,
       102, 67, 97, 12, 84, 42, 19, 13, 8, 117, 70, 6, 2, 102, 74, 116, 104,
       98, 21, 100, 105, 38, 13, 12, 45, 119, 90, 112, 107, 114, 39, 85, 117,
       124, 89, 63, 64, 97, 59, 48, 48, 47, 51, 56, 97, 5, 28, 127, 41, 2, 32,
       24, 102, 21, 54, 2, 41, 1, 36, 60, 20, 50, 6, 43, 39, 16, 16, 86, 5,
       88, 45, 74, 91, 84, 5, 20, 127, 119, 18, 91, 96, 99, 123, 3, 74, 114,
       58, 102, 49, 12, 17, 25, 30, 35, 13, 80, 126, 104, 126, 61, 13, 96,
       123, 7, 55, 118, 80, 81, 94, 109, 81, 96, 37, 66, 19, 25, 23, 18, 85,
       71, 68, 68, 105, 108, 59, 29, 61, 7, 98, 50, 98, 57, 58, 89, 29, 86,
       64, 50, 102, 54, 56, 123, 113, 78, 53, 22, 108, 74, 123, 66, 78, 37,
       28, 66, 27, 60, 92, 100, 1, 17, 119, 84, 13, 34, 116, 126, 121, 99, 18,
       60, 127, 97, 21, 30, 24, 8, 115, 108, 75, 125, 82, 123, 94, 38, 46, 89,
       109, 90, 125, 73, 21, 96, 105, 20, 1, 61, 67, 13, 102, 52, 24, 20, 49,
       7, 65, 44, 17, 90, 23, 102, 54, 43, 100, 13, 27, 90, 89, 37, 110, 31,
       105, 43, 44, 77, 25, 29, 25, 21, 22, 21, 86, 4, 36, 100, 57, 25, 20, 8,
       60, 60, 85, 6, 52, 74, 103, 47, 107, 43, 127, 45, 89, 68, 126, 91, 118,
       49, 106, 81, 35, 100, 59, 31, 30, 104, 101, 125, 18, 67, 18, 99, 12, 2,
       94, 67, 32, 67, 43, 34, 120, 23, 2, 116, 23, 1, 126, 78, 40, 24, 74,
       45, 69, 39, 3, 96, 86, 55, 74, 96, 63, 46, 125, 24, 107, 18, 96, 86,
       123, 77, 122, 114, 19, 24, 67, 58, 102, 104, 114, 29, 71, 105, 54, 61,
       22, 4, 63, 110, 46, 88, 124, 11, 94, 24, 19, 105, 83, 92, 64, 126, 11,
       69, 33, 85, 75, 49, 121, 63, 60, 53, 96, 97, 30, 116, 98, 29, 18, 2,
       52, 109, 93, 66, 3, 59, 106, 81, 124, 71, 107, 44, 85, 35, 65, 10, 73,
       3, 39, 74, 113, 124, 35, 67, 48, 50, 81, 16, 73, 53, 18, 100, 38, 93,
       0, 113, 0, 42, 92, 58, 113, 7, 10, 53, 69, 81, 120, 28, 95, 78, 0, 22,
       104, 41, 126, 23, 93, 46, 45, 110, 103, 22, 49, 113, 52, 97, 50, 45,
       58, 13, 68, 25, 104, 78, 98, 20, 127, 78, 92, 116, 32, 0, 88, 83, 33,
       83, 107, 95, 11, 120, 91, 69, 127, 87, 79, 74, 46, 68, 119, 104, 72,
       29, 66, 91, 75, 50, 60, 99, 120, 49, 107, 29, 123, 124, 114, 1, 97, 52,
       66, 107, 106, 51, 44, 112, 10, 120, 19, 100, 101, 1, 126, 82, 112, 110,
       2, 18, 22, 19, 126, 93, 52, 117, 90, 119, 83, 3, 8, 65, 45, 22, 52, 79,
       69, 112, 22, 127, 125, 14, 31, 28, 23, 7, 82, 85, 95, 60, 113, 44, 22,
       25, 16, 22, 77, 120, 96, 77, 102, 65, 122, 11, 77, 51, 110, 29, 40, 64,
       96, 56, 101, 3, 94, 43, 69, 78, 23, 52, 83, 82, 11, 101, 31, 62, 66,
       11, 29, 11, 34, 94, 123, 76, 116, 50, 76, 51, 4, 53, 97, 91, 111, 48,
       56, 34, 25, 8, 93, 108, 62, 113, 66, 40, 10, 27, 2, 26, 114, 65, 106,
       59, 83, 0, 63, 10, 77, 114, 12, 56, 19, 94, 81, 52, 87, 29, 40, 72,
       120, 74, 64, 104, 70, 50, 92, 52, 55, 83, 89, 33, 68, 53, 54, 127, 51,
       82, 76, 49, 5, 7, 108, 7, 94, 82, 123, 68, 122, 20, 100, 112, 20, 109,
       53, 90, 81, 112, 18, 64, 26, 32, 68, 17, 5, 73, 5, 38, 92, 114, 70,
       120, 37, 26, 37, 101, 96, 96, 81, 17, 93, 29, 99, 41, 85, 56, 119, 117,
       127, 32, 99, 35, 71, 60, 118, 120, 107, 44, 30, 19, 42, 51, 48, 88,
       104, 7, 73, 107, 61, 101, 29, 70, 43, 114, 88, 79, 121, 82, 106, 108,
       111, 96, 7, 27, 48, 29, 72, 121, 66, 83, 51, 95, 66, 12, 82, 104, 13,
       57, 72, 52, 26, 118, 88, 18, 115, 11, 74, 38, 124, 98, 81, 91, 43, 104,
       92, 84, 43, 29, 85, 45, 13, 86, 22, 2, 84, 91, 81, 103, 127, 116, 27,
       36, 113, 6, 103, 84, 26, 7, 111, 114, 32, 43, 114, 100, 111, 117, 23,
       74, 10, 68, 55, 87, 62, 26, 8, 71, 72, 60, 94, 51, 65, 11, 112, 62, 38,
       54, 34, 22, 105, 19, 61, 111, 105, 72, 113, 111, 27, 63, 24, 118, 101,
       66, 35, 78, 83, 120, 4, 27, 78, 31, 22, 73, 52, 127, 91, 2, 116, 89,
       46, 38, 122, 124, 48, 116, 29, 64, 116, 126, 114, 75, 32, 44, 117, 124,
       3, 88, 49, 48, 0, 91, 72, 109, 124, 85, 120, 64, 52, 21, 17, 98, 126,
       48, 84, 115, 26, 14, 21, 7, 96, 72, 14, 17, 1, 20, 4, 87, 88, 124, 42,
       15, 19, 19, 107, 66, 109, 14, 103, 71, 105, 83, 72, 83, 111, 75, 89,
       124, 65, 91, 81, 28, 113, 75, 77, 115, 44, 104, 51, 11, 58, 93, 47,
       122, 19, 25, 12, 102, 12, 121, 68, 41, 50, 80, 108, 17, 99, 91, 80,
       111, 101, 106, 68, 99, 76, 70, 85, 54, 124, 33, 58, 110, 100, 102, 33,
       14, 13, 95, 81, 23, 66, 34, 48, 17, 115, 117, 109, 22, 51, 63, 60, 64,
       124, 61, 31, 53, 83, 85, 91, 109, 52, 91, 81, 92, 46, 51, 92, 126, 62,
       69, 69, 62, 23, 50, 20, 117, 44, 59, 108, 101, 85, 76, 53, 19, 123, 35,
       21, 55, 47, 17, 52, 30, 36, 88, 97, 47, 96, 21, 73, 69, 76, 87, 79,
       123, 54, 34, 116, 105, 116, 67, 25, 45, 15, 30, 37, 103, 122, 42, 81,
       100, 14, 64, 45, 101, 127, 39, 29, 21, 64, 84, 23, 78, 38, 6, 123, 27,
       38, 80, 45, 93, 83, 53, 114, 62, 61, 78, 81, 42, 15, 102, 31, 98, 36,
       102, 93, 121, 80, 42, 74, 11, 23, 91, 2, 20, 106, 6, 111, 76, 2, 62,
       53, 61, 126, 12, 80, 31, 60, 4, 108, 45, 59, 109, 33, 38, 51, 124, 22,
       0, 86, 6, 92, 79, 33, 56, 21, 12, 38, 106, 7, 110, 12, 114, 114, 109,
       105, 49, 42, 67, 108, 67, 20, 94, 109, 91, 13, 56, 12, 64, 2, 28, 125,
       66, 75, 23, 92, 59, 38, 2, 48, 36, 79, 60, 77, 56, 79, 94, 47, 47, 2,
       39, 117, 44, 12, 2, 74, 40, 86, 42, 38, 107, 61, 80, 40, 13, 99, 117,
       124, 75, 45, 107, 16, 107, 73, 107, 19, 50, 36, 108, 19, 57, 119, 51,
       110, 0, 121, 83, 60, 106, 111, 0, 47, 71, 28, 25, 23, 64, 23, 56, 63,
       58, 24, 125, 122, 109, 126, 37, 70, 116, 30, 114, 76, 119, 32, 14, 38,
       113, 105, 87, 10, 41, 38, 82, 30, 81, 86, 116, 108, 84, 75, 50, 119,
       100, 5, 107, 101, 122, 72, 2, 59, 90, 70, 7, 0, 2, 12, 104, 92, 52, 34,
       14, 13, 107, 60, 75, 83, 91, 61, 103, 71, 39, 82, 26, 81, 75, 40, 38,
       15, 92, 106, 62, 21, 18, 59, 29, 102, 48, 104, 116, 13, 60, 83, 75, 12,
       29, 24, 76, 90, 37, 65, 70, 112, 76, 67, 71, 47, 117, 56, 25, 118, 13,
       79, 67, 52, 124, 34, 49, 47, 7, 6, 12, 76, 105, 35, 30, 117, 39, 113,
       87, 12, 85, 127, 19, 22, 14, 126, 39, 75, 88, 66, 61, 10, 116, 4, 67,
       85, 75, 25, 70, 41, 15, 52, 13, 114, 29, 0, 67, 44, 1, 79, 7, 64, 113,
       109, 57, 90, 51, 32, 12, 77, 117, 88, 76, 116, 59, 14, 106, 28, 101,
       113, 52, 75, 38, 64, 123, 102, 118, 111, 76, 119, 56, 12, 82, 97, 115,
       47, 125, 68, 50, 56, 89, 94, 100, 114, 82, 47, 69, 88, 54, 76, 87, 124,
       49, 96, 119, 102, 39, 98, 115, 115, 62, 15, 33, 120, 15, 9, 92, 38, 60,
       98, 2, 44, 71, 114, 92, 6, 75, 54, 86, 94, 80, 124, 79, 116, 99, 102,
       19, 32, 11, 111, 40, 77, 127, 98, 44, 112, 0, 96, 85, 55, 37, 118, 66,
       9, 1, 21, 112, 119, 82, 30, 91, 84, 0, 92, 35, 30, 47, 100, 68, 22,
       110, 98, 83, 51, 91, 48, 4, 102, 21, 27, 40, 121, 80, 17, 118, 46, 33,
       107, 10, 76, 8, 71, 77, 120, 17, 84, 74, 24, 65, 74, 111, 51, 112, 82,
       69, 6, 45, 2, 104, 10, 87, 84, 7, 85, 45, 63, 58, 15, 125, 79, 27, 69,
       54, 62, 66, 105, 27, 15, 21, 34, 74, 28, 81, 39, 127, 122, 61, 33, 26,
       28, 74, 102, 94, 51, 51, 58, 31, 51, 111, 10, 46, 127, 47, 48, 99, 101,
       44, 21, 52, 77, 60, 27, 120, 62, 89, 53, 35, 92, 109, 55, 34, 12, 13,
       117, 10, 95, 11, 120, 30, 23, 45, 114, 14, 55, 4, 99, 94, 22, 6, 44,
       78, 103, 118, 29, 50, 16, 39, 36, 17, 8, 99, 126, 0, 44, 115, 104, 47,
       27, 56, 68, 44, 112, 64, 89, 92, 126, 39, 11, 69, 26, 58, 87, 97, 65,
       71, 105, 66, 15, 121, 49, 88, 20, 62, 105, 65, 8, 68, 94, 22, 47, 24,
       103, 90, 76, 83, 120, 111, 103, 99, 29, 47, 21, 58, 52, 71, 36, 66,
       119, 35, 68, 33, 5, 71, 46, 36, 121, 18, 8, 99, 64, 55, 30, 119, 20,
       57, 121, 76, 48, 107, 105, 42, 67, 105, 17, 105, 28, 4, 15, 25, 118,
       114, 46, 79, 18, 18, 79, 68, 93, 58, 76, 62, 4, 47, 85, 22, 79, 39, 85,
       53, 101, 3, 86, 106, 85, 92, 35, 42, 127, 2, 120, 35, 35, 82, 83, 107,
       64, 70, 41, 125, 100, 53, 75, 80, 122, 39, 92, 124, 5, 4, 123, 96, 31,
       96, 87, 42, 78, 65, 26, 47, 43, 21, 20, 48, 57, 93, 97, 92, 74, 80, 23,
       81, 22, 65, 107, 76, 38, 35, 105, 56, 115, 58, 48, 8, 108, 79, 82, 49,
       123, 62, 101, 71, 117, 107, 48, 21, 53, 74, 99, 93, 2, 72, 121, 123,
       41, 55, 94, 79, 100, 19, 126, 73, 27, 61, 26, 106, 19, 27, 57, 1, 83,
       18, 89, 68, 86, 65, 73, 64, 2, 93, 1, 58, 58, 57, 121, 41, 118, 39, 44,
       116, 70, 85, 43, 100, 52, 41, 4, 72, 47, 75, 35, 96, 24, 36, 9, 120,
       60, 83, 84, 16, 90, 49, 34, 119, 116, 46, 48, 23, 63, 77, 109, 108, 46,
       60, 111, 95, 93, 6, 41, 108, 73, 98, 88, 70, 23, 114, 123, 13, 56, 65,
       98, 73, 20, 6, 124, 32, 13, 65, 122, 83, 9, 25, 85, 59, 82, 19, 117,
       42, 0, 46, 97, 95, 42, 52, 25, 110, 92, 50, 93, 105, 81, 21, 26, 84,
       26, 84, 16, 69, 94, 117, 33, 64, 81, 86, 58, 67, 70, 40, 77, 13, 23,
       69, 35, 124, 127, 71, 83, 31, 56, 4, 91, 7, 97, 89, 76, 23, 50, 106,
       57, 5, 22, 51, 42, 85, 59, 116, 19, 7, 38, 89, 89, 74, 64, 104, 98, 67,
       63, 0, 20, 32, 62, 21, 53, 3, 66, 71, 51, 3, 80, 65, 82, 94, 51, 120,
       43, 34, 118, 17, 22, 90, 108, 19, 49, 91, 97, 5, 113, 92, 45, 79, 0,
       54, 95, 103, 78, 91, 113, 19, 97, 16, 45, 99, 90, 22, 79, 50, 94, 38,
       98, 5, 106, 105, 13, 54, 30, 33, 81, 0, 90, 20, 119, 124, 115, 72, 17,
       24, 95, 13, 58, 57, 42, 57, 44, 95, 69, 12, 103, 107, 88, 42, 49, 67,
       56, 42, 15, 41, 88, 13, 118, 55, 69, 63, 86, 101, 16, 98, 55, 96, 16,
       71, 71, 93, 16, 6, 41, 95, 77, 58, 28, 55, 64, 107, 15, 46, 96, 114,
       33, 79, 45, 90, 115, 97, 81, 2, 72, 8, 113, 43, 25, 113, 45, 116, 19,
       119, 90, 58, 68, 16, 32, 95, 41, 111, 18, 85, 92, 104, 24, 71, 22, 61,
       122, 71, 108, 74, 24, 116, 35, 25, 57, 32, 82, 110, 75, 65, 4, 114,
       101, 28, 62, 77, 113, 28, 118, 39, 119, 5, 67, 85, 44, 107, 44, 40, 46,
       47, 32, 92, 80, 37, 94, 100, 99, 96, 41, 92, 93, 28, 118, 46, 82, 67,
       12, 124, 66, 125, 37, 100, 83, 77, 28, 67, 116, 35, 114, 83, 94, 1, 86,
       79, 74, 59, 123, 82, 95, 104, 38, 29, 54, 76, 12, 127, 125, 119, 46, 7,
       51, 118, 122, 84, 31, 16, 93, 33, 71, 39, 73, 1, 41, 9, 66, 43, 125, 1,
       7, 69, 48, 109, 45, 126, 19, 48, 104, 90, 13, 95, 112, 104, 91, 81, 73,
       58, 43, 11, 51, 92, 82, 99, 15, 66, 124, 1, 98, 49, 122, 74, 127, 3,
       54, 19, 65, 92, 64, 117, 96, 112, 37, 117, 87, 45, 83, 81, 64, 71, 5,
       113, 105, 99, 50, 47, 59, 71, 69, 45, 71, 105, 34, 80, 91, 73, 64, 82,
       113, 88, 9, 22, 27, 45, 117, 117, 111, 110, 9, 127, 78, 14, 66, 92, 43,
       95, 5, 47, 75, 17, 34, 34, 27, 114, 43, 86, 31, 10, 93, 6, 20, 53, 3,
       95, 64, 73, 119, 23, 51, 43, 95, 36, 47, 67, 10, 39, 87, 116, 85, 58,
       7, 93, 60, 26, 38, 19, 4, 88, 25, 78, 98, 77, 38, 77, 83, 68, 111, 90,
       93, 122, 57, 60, 9, 14, 15, 13, 101, 96, 84, 116, 48, 41, 116, 113,
       112, 50, 44, 61, 72, 2, 107, 45, 121, 42, 113, 107, 55, 95, 46, 106,
       29, 110, 85, 51, 75, 90, 96, 36, 83, 89, 8, 120, 81, 65, 32, 30, 30,
       76, 123, 59, 1, 80, 122, 51, 108, 121, 11, 71, 20, 86, 51, 114, 16,
       113, 81, 65, 16, 49, 95, 36, 38, 114, 8, 10, 41, 73, 43, 124, 78, 119,
       17, 70, 126, 123, 1, 121, 29, 47, 65, 56, 13, 85, 31, 101, 95, 83, 99,
       31, 59, 60, 42, 69, 4, 95, 82, 124, 66, 126, 121, 122, 39, 41, 71, 90,
       37, 49, 102, 62, 55, 96, 58, 46, 77, 107, 2, 110, 1, 114, 80, 104, 48,
       82, 64, 37, 99, 28, 100, 31, 7, 74, 9, 91, 84, 12, 50, 49, 115, 46,
       119, 101, 61, 106, 48, 3, 55, 116, 52, 102, 68, 75, 95, 99, 108, 116,
       67, 43, 111, 4, 6, 76, 104, 94, 105, 123, 87, 2, 39, 21, 16, 23, 68,
       127, 25, 56, 111, 95, 50, 108, 20, 68, 20, 110, 54, 60, 59, 124, 122,
       89, 122, 106, 6, 18, 88, 53, 27, 126, 12, 89, 68, 113, 98, 111, 108,
       43, 66, 86, 81, 107, 100, 108, 28, 63, 108, 19, 28, 97, 45, 28, 85, 37,
       10, 44, 28, 56, 25, 119, 114, 32, 78, 113, 67, 63, 35, 3, 102, 4, 57,
       88, 36, 122, 20, 99, 90, 85, 73, 32, 3, 85, 20, 70, 32, 89, 8, 93, 75,
       50, 118, 84, 57, 95, 106, 54, 27, 59, 113, 41, 58, 54, 63, 113, 22, 85,
       110, 43, 79, 31, 16, 61, 89, 96, 26, 23, 50, 43, 95, 16, 22, 102, 93,
       97, 24, 114, 76, 81, 27, 37, 52, 115, 32, 56, 90, 5, 40, 51, 61, 20,
       67, 80, 92, 63, 109, 81, 98, 0, 117, 37, 42, 33, 14, 77, 112, 81, 115,
       112, 26, 81, 67, 11, 37, 48, 79, 11, 110, 12, 11, 86, 85, 116, 35, 86,
       63, 72, 54, 118, 12, 6, 48, 72, 39, 40, 89, 102, 90, 109, 94, 30, 124,
       123, 84, 9, 87, 29, 18, 30, 98, 18, 78, 42, 119, 76, 75, 68, 52, 21,
       60, 113, 86, 90, 2, 120, 70, 52, 65, 83, 63, 49, 113, 78, 123, 14, 75,
       107, 19, 24, 0, 72, 126, 35, 72, 83, 11, 31, 114, 105, 56, 41, 44, 70,
       112, 7, 93, 22, 82, 123, 20, 102, 64, 7, 25, 16, 66, 87, 10, 32, 104,
       82, 95, 57, 91, 102, 100, 67, 113, 127, 18, 32, 49, 52, 101, 3, 52, 14,
       63, 112, 115, 15, 8, 28, 96, 105, 17, 12, 13, 13, 44, 46, 1, 3, 0, 15,
       26, 76, 21, 110, 2, 78, 29, 68, 88, 63, 7, 26, 3, 122, 0, 80, 2, 68,
       30, 26, 7, 49, 47, 63, 50, 113, 83, 91, 19, 15, 18, 28, 9, 106, 126,
       73, 17, 17, 113, 46, 8, 71, 100, 125, 126, 4, 45, 33, 127, 71, 114, 63,
       15, 23, 23, 49, 86, 88, 37, 42, 103, 85, 104, 21, 20, 71, 51, 64, 63,
       123, 48, 26, 85, 109, 17, 127, 82, 55, 32, 51, 20, 24, 77, 3, 90, 97,
       46, 118, 9, 84, 46, 92, 100, 18, 17, 18, 70, 66, 77, 111, 40, 21, 116,
       30, 38, 49, 5, 122, 98, 108, 9, 6, 31, 96, 67, 53, 24, 63, 9, 48, 22,
       99, 20, 9, 13, 100, 57, 50, 60, 56, 86, 64, 122, 5, 1, 106, 86, 42,
       106, 110, 44, 100, 98, 99, 60, 120, 51, 66, 91, 28, 46, 17, 92, 66,
       124, 49, 67, 105, 71, 3, 49, 51, 118, 122, 12, 19, 58, 55, 11, 123, 34,
       98, 17, 3, 64, 52, 36, 116, 98, 73, 82, 106, 21, 61, 102, 28, 35, 37,
       22, 89, 3, 81, 78, 113, 44, 12, 56, 15, 99, 97, 105, 29, 75, 87, 99,
       54, 69, 63, 124, 45, 89, 124, 22, 84, 95, 66, 84, 6, 91, 80, 81, 119,
       59, 89, 117, 66, 83, 94, 1, 100, 101, 105, 78, 72, 82, 23, 30, 60, 37,
       64, 12, 51, 17, 52, 102, 22, 9, 125, 27, 19, 37, 123, 90, 29, 66, 121,
       125, 23, 67, 74, 123, 101, 64, 123, 109, 12, 13, 70, 117, 126, 70, 43,
       94, 82, 117, 74, 12, 3, 66, 88, 127, 52, 101, 37, 44, 108, 4, 96, 39,
       78, 80, 19, 9, 104, 71, 90, 4, 17, 40, 56, 61, 15, 124, 101, 71, 92,
       48, 57, 124, 20, 18, 99, 19, 21, 114, 114, 75, 105, 93, 89, 87, 7, 17,
       42, 7, 101, 53, 54, 108, 27, 78, 16, 100, 74, 100, 93, 109, 106, 88,
       47, 49, 125, 8, 92, 5, 13, 11, 105, 101, 106, 95, 48, 80, 21, 104, 6,
       27, 29, 0, 100, 91, 95, 15, 52, 80, 39, 63, 41, 125, 102, 34, 81, 31,
       51, 94, 3, 114, 0, 47, 70, 95, 45, 103, 58, 22, 118, 125, 2, 28, 109,
       123, 96, 81, 56, 40, 67, 64, 99, 11, 44, 109, 65, 75, 104, 65, 16, 84,
       103, 63, 0, 67, 112, 78, 106, 44, 62, 38, 1, 123, 95, 31, 77, 53, 43,
       127, 27, 32, 18, 26, 39, 29, 7, 122, 3, 34, 82, 71, 1, 123, 92, 8, 49,
       74, 35, 13, 68, 88, 57, 93, 87, 95, 2, 114, 59, 69, 58, 45, 35, 6, 21,
       113, 66, 27, 27, 94, 83, 79, 6, 44, 43, 63, 34, 73, 67, 35, 30, 58,
       101, 32, 93, 37, 127, 60, 41, 34, 120, 30, 107, 90, 8, 11, 71, 44, 119,
       73, 69, 41, 44, 65, 37, 99, 38, 113, 48, 115, 48, 22, 116, 92, 80, 63,
       96, 60, 32, 12, 8, 67, 30, 101, 26, 60, 99, 101, 57, 47, 71, 106, 84,
       109, 22, 107, 0, 101, 80, 63, 66, 64, 91, 67, 9, 2, 119, 15, 25, 79,
       121, 91, 65, 34, 26, 79, 52, 88, 102, 85, 30, 60, 61, 47, 50, 124, 59,
       0, 52, 49, 59, 113, 4, 99, 42, 86, 0, 79, 46, 68, 108, 127, 73, 81, 79,
       110, 46, 62, 6, 62, 11, 39, 71, 73, 94, 67, 115, 51, 85, 54, 59, 104,
       43, 110, 10, 9, 91, 14, 124, 66, 42, 108, 125, 79, 94, 40, 110, 19, 78,
       119, 92, 44, 49, 107, 63, 97, 59, 34, 95, 100, 94, 45, 2, 23, 122, 96,
       23, 94, 116, 24, 97, 0, 52, 8, 84, 22, 23, 3, 43, 41, 121, 27, 75, 47,
       17, 78, 81, 87, 98, 80, 2, 103, 127, 123, 98, 31, 6, 116, 85, 41, 122,
       26, 72, 119, 111, 14, 25, 79, 1, 20, 120, 102, 122, 127, 100, 32, 10,
       82, 1, 29, 7, 72, 117, 124, 10, 76, 27, 67, 51, 85, 67, 44, 8, 51, 4,
       56, 45, 126, 36, 82, 8, 18, 48, 24, 64, 56, 77, 2, 47, 122, 78, 88, 68,
       57, 51, 47, 75, 7, 65, 48, 22, 123, 19, 80, 28, 93, 69, 69, 98, 102, 9,
       27, 70, 90, 53, 113, 17, 20, 100, 21, 34, 49, 21, 7, 103, 93, 34, 65,
       72, 104, 81, 108, 24, 123>>)

\* the state random.seed(a) leaves the generator in
random_seed(a) == [seed |-> a, pos |-> 0]

\* n.bit_length(), for 0 < n < 128
bit_length(n) == CHOOSE k \in 1 .. 7 : 2 ^ (k - 1) <= n /\ n < 2 ^ k

\* getrandbits(k) for k <= 7, in the state s: the value it returns
getrandbits(k, s) == mt_top7[s.seed][s.pos + 1] \div (2 ^ (7 - k))

\* Random._randbelow_with_getrandbits(n): k = n.bit_length();
\* r = getrandbits(k); while r >= n: r = getrandbits(k); return r
RECURSIVE randbelow(_, _)
randbelow(n, s) ==
    LET r == getrandbits(bit_length(n), s)
        s1 == [s EXCEPT !.pos = @ + 1]
    IN IF r >= n THEN randbelow(n, s1) ELSE [value |-> r, rng |-> s1]

Swap(x, i, j) == [x EXCEPT ![i] = x[j], ![j] = x[i]]

\* one iteration of the loop, for the (0-based) index i
shuffle_swap(st, i) ==
    LET d == randbelow(i + 1, st.rng)
    IN [seq |-> Swap(st.seq, i + 1, d.value + 1), rng |-> d.rng]

\* the iterations for i = hi, hi - 1, ..., lo, in that order (there is
\* none for an empty list)
RECURSIVE shuffle_range(_, _, _)
shuffle_range(st, hi, lo) ==
    IF st.seq = <<>> \/ hi < lo THEN st
    ELSE IF hi = lo THEN shuffle_swap(st, hi)
    ELSE LET mid == (hi + lo) \div 2
         IN shuffle_range(shuffle_range(st, hi, mid + 1), mid, lo)

shuffle(x, s) == shuffle_range([seq |-> x, rng |-> s], Len(x) - 1, 1)

\* ------------------------------------------------------------------------
\* Board queries
\* ------------------------------------------------------------------------
\* find_empty_cell scanning the columns first
find_empty_cell_colmajor(board) ==
    LET cols == {c \in 0 .. 8 : \E r \in 0 .. 8 : board[r][c] = 0}
    IN IF cols = {} THEN <<>>
       ELSE LET c == CHOOSE x \in cols : \A y \in cols : x <= y
                rs == {k \in 0 .. 8 : board[k][c] = 0}
            IN <<CHOOSE x \in rs : \A y \in rs : x <= y, c>>

\* np.where(board == 0) lists the empty cells in row-major order; the first
\* one is returned, None when there is none.
find_empty_cell(board) ==
    LET rows == {r \in Idx : \E c \in Idx : board[r][c] = 0}
    IN IF rows = {} THEN None
       ELSE LET r == Min(rows)
                c == Min({k \in Idx : board[r][k] = 0})
            IN <<r, c>>

\* is_valid_move without the test of the 3x3 block
is_valid_move_no_block(board, row, col, num) ==
    IF \E c \in Idx : board[row][c] = num THEN FALSE
    ELSE IF \E r \in Idx : board[r][col] = num THEN FALSE
    ELSE TRUE

is_valid_move(board, row, col, num) ==
    IF \E c \in Idx : board[row][c] = num THEN FALSE
    ELSE IF \E r \in Idx : board[r][col] = num THEN FALSE
    ELSE LET start_row == BLOCK_SIZE * (row \div BLOCK_SIZE)
             start_col == BLOCK_SIZE * (col \div BLOCK_SIZE)
         IN IF \E r \in start_row .. (start_row + BLOCK_SIZE - 1) :
                 \E c \in start_col .. (start_col + BLOCK_SIZE - 1) :
                     board[r][c] = num
            THEN FALSE
            ELSE TRUE

\* the digits in descending order
nums_range_desc == [k \in 1 .. GRID_SIZE |-> GRID_SIZE + 1 - k]

\* list(range(1, 10))
nums_range == [k \in 1 .. GRID_SIZE |-> k]

\* ------------------------------------------------------------------------
\* solve_sudoku, one step of its execution at a time.  An execution is a
\* record:
\*   board, solutions_list   the two objects the calls share and mutate
\*   randomize, find_all, solution_limit   the arguments passed down
\*                           unchanged (solution_limit = 0 stands for None:
\*                           both are falsy in `find_all and solution_limit`)
\*   rng                     the state of the random generator
\*   stack                   the active calls that are inside their loop
\*                           `for num in nums`, outermost first: row, col,
\*                           nums, the index i of the current num, and the
\*                           board as it was when the call was entered
\*   pc                      "call": a call is being entered;
\*                           "loop": the innermost call is at the head of an
\*                           iteration; "ret": a call has just returned ret,
\*                           entered with the board entry; "done": the
\*                           top-level call has returned ret
\* ------------------------------------------------------------------------
solve_call(board, randomize, find_all, solutions_list, solution_limit, rng) ==
    [board |-> board, randomize |-> randomize, find_all |-> find_all,
     solutions_list |-> solutions_list, solution_limit |-> solution_limit,
     rng |-> rng, stack |-> <<>>, pc |-> "call", ret |-> FALSE,
     entry |-> board]

Top(s) == s.stack[Len(s.stack)]
Pop(s) == SubSeq(s.stack, 1, Len(s.stack) - 1)

\* lines 66-74: find the first empty cell; with none, record the board in
\* FindAll mode and return True; otherwise draw the order of the digits
solve_enter(s) ==
    LET empty == find_empty_cell(s.board)
    IN IF empty = None
       THEN [s EXCEPT !.solutions_list =
                          IF s.find_all THEN Append(@, s.board) ELSE @,
                      !.pc = "ret", !.ret = TRUE, !.entry = s.board]
       ELSE LET sh == IF s.randomize THEN shuffle(nums_range, s.rng)
                      ELSE [seq |-> nums_range, rng |-> s.rng]
            IN [s EXCEPT !.stack = Append(@, [row |-> empty[1],
                                              col |-> empty[2],
                                              nums |-> sh.seq, i |-> 1,
                                              entry |-> s.board]),
                         !.rng = sh.rng, !.pc = "loop"]

\* `for num in nums: if self.is_valid_move(board, row, col, num):` from the
\* i-th element of nums on: the index of the first num that passes the test,
\* Len(nums) + 1 when none is left
RECURSIVE next_valid(_, _, _, _, _)
next_valid(board, row, col, nums, i) ==
    IF i > Len(nums) THEN i
    ELSE IF is_valid_move(board, row, col, nums[i]) THEN i
    ELSE next_valid(board, row, col, nums, i + 1)

\* solve_loop without `board[row, col] = num`
solve_loop_no_place(s) ==
    LET f == s.stack[Len(s.stack)]
        k == next_valid(s.board, f.row, f.col, f.nums, f.i)
    IN IF k > Len(f.nums)
       THEN [s EXCEPT !.stack = SubSeq(@, 1, Len(@) - 1), !.pc = "ret",
                      !.ret = FALSE, !.entry = f.entry]
       ELSE [s EXCEPT !.stack[Len(s.stack)].i = k, !.pc = "call"]

\* lines 75-77 and 87: the loop runs on to the next num that is a valid
\* move and places it, or ends and the call returns False
solve_loop(s) ==
    LET f == Top(s)
        k == next_valid(s.board, f.row, f.col, f.nums, f.i)
    IN IF k > Len(f.nums)
       THEN [s EXCEPT !.stack = Pop(s), !.pc = "ret", !.ret = FALSE,
                      !.entry = f.entry]
       ELSE [s EXCEPT !.board = Place(@, f.row, f.col, f.nums[k]),
                      !.stack[Len(s.stack)].i = k, !.pc = "call"]

\* solve_after without the reset of the cell after a failed branch (line 86)
solve_after_no_reset(s) ==
    LET f == s.stack[Len(s.stack)]
    IN IF s.ret /\ ~s.find_all
       THEN [s EXCEPT !.stack = SubSeq(@, 1, Len(@) - 1), !.pc = "ret",
                      !.ret = TRUE, !.entry = f.entry]
       ELSE IF s.find_all /\ s.solution_limit # 0
               /\ Len(s.solutions_list) >= s.solution_limit
       THEN [s EXCEPT !.board = Place(@, f.row, f.col, 0),
                      !.stack = SubSeq(@, 1, Len(@) - 1), !.pc = "ret",
                      !.ret = TRUE, !.entry = f.entry]
       ELSE [s EXCEPT !.stack[Len(s.stack)].i = @ + 1, !.pc = "loop"]

\* solve_after without the test of the limit (lines 82-84)
solve_after_no_unwind(s) ==
    LET f == s.stack[Len(s.stack)]
    IN IF s.ret /\ ~s.find_all
       THEN [s EXCEPT !.stack = SubSeq(@, 1, Len(@) - 1), !.pc = "ret",
                      !.ret = TRUE, !.entry = f.entry]
       ELSE [s EXCEPT !.board = Place(@, f.row, f.col, 0),
                      !.stack[Len(s.stack)].i = @ + 1, !.pc = "loop"]

\* lines 78-86: the recursive call has returned s.ret to the innermost
\* active call
solve_after(s) ==
    LET f == Top(s)
    IN IF s.ret /\ ~s.find_all
       THEN [s EXCEPT !.stack = Pop(s), !.pc = "ret", !.ret = TRUE,
                      !.entry = f.entry]
       ELSE IF s.find_all /\ s.solution_limit # 0
               /\ Len(s.solutions_list) >= s.solution_limit
       THEN [s EXCEPT !.board = Place(@, f.row, f.col, 0),
                      !.stack = Pop(s), !.pc = "ret", !.ret = TRUE,
                      !.entry = f.entry]
       ELSE [s EXCEPT !.board = Place(@, f.row, f.col, 0),
                      !.stack[Len(s.stack)].i = @ + 1, !.pc = "loop"]

solve_step(s) ==
    CASE s.pc = "call" -> solve_enter(s)
      [] s.pc = "loop" -> solve_loop(s)
      [] s.pc = "ret" /\ s.stack # <<>> -> solve_after(s)
      [] s.pc = "ret" /\ s.stack = <<>> -> [s EXCEPT !.pc = "done"]
      [] OTHER -> s

\* 2^k steps of an execution, or as many as it takes to finish
RECURSIVE solve_steps(_, _)
solve_steps(s, k) ==
    IF s.pc = "done" THEN s
    ELSE IF k = 0 THEN solve_step(s)
    ELSE solve_steps(solve_steps(s, k - 1), k - 1)

\* the execution run until the top-level call returns
RECURSIVE solve_run(_, _)
solve_run(s, k) ==
    IF s.pc = "done" THEN s ELSE solve_run(solve_steps(s, k), k + 1)

\* a whole call of solve_sudoku: its return value ret, and the board, the
\* solutions list and the random generator as the call leaves them
solve_sudoku(board, randomize, find_all, solutions_list, solution_limit, rng) ==
    solve_run(solve_call(board, randomize, find_all, solutions_list,
                         solution_limit, rng), 0)

\* has_unique_solution with `len(solutions) >= 1`
has_unique_solution_any(board) ==
    Len(solve_sudoku(board, FALSE, TRUE, <<>>, 2, 0).solutions_list) >= 1

\* solutions = []; solve_sudoku(board.copy(), find_all=True,
\*                              solutions_list=solutions, solution_limit=2)
has_unique_solution(board) ==
    Len(solve_sudoku(board, FALSE, TRUE, <<>>, 2, 0).solutions_list) = 1

\* board = np.zeros(...); solve_sudoku(board, randomize=True); return board
generate_solved_board(rng) ==
    LET r == solve_sudoku(zeros, TRUE, FALSE, <<>>, 0, rng)
    IN [board |-> r.board, rng |-> r.rng]

\* levels.get with the target of hard as the default
levels_get_default_hard(d) ==
    CASE d = "easy" -> 43
      [] d = "medium" -> 51
      [] d = "hard" -> 62
      [] OTHER -> 62

\* levels.get(self.difficulty, 51)
levels_get(d) ==
    CASE d = "easy" -> 43
      [] d = "medium" -> 51
      [] d = "hard" -> 62
      [] OTHER -> 51

\* cells = [(r, c) for r in range(9) for c in range(9)]
all_cells == [k \in 1 .. (GRID_SIZE * GRID_SIZE) |->
                 <<(k - 1) \div GRID_SIZE, (k - 1) % GRID_SIZE>>]

\* ------------------------------------------------------------------------
\* State
\* ------------------------------------------------------------------------
VARIABLES
    module,             \* "sudoku": SudokuGame of sudoku.py; "game": the
                        \* backtracking fallback of game.py
    difficulty,         \* self.difficulty
    rng,                \* state of the random generator
    pc,                 \* position in SudokuGame.__init__ / generate_puzzle
    board,              \* the local board of generate_puzzle
    solved_board,       \* the board generate_solved_board returned
    squares_to_remove,
    cells,              \* the shuffled list of the 81 coordinates
    pos,                \* index in cells of the next element of the for loop
    start_time,
    squares_removed,
    probe,              \* the last removal attempt: cell, backup, unique
    original_board,     \* self.original_board
    solution,           \* self.solution
    solver,             \* an execution of solve_sudoku (see solve_call)
    input,              \* the board that execution was called with
    game_board,         \* self.board of SudokuGame (self.game.board)
    user_pencil_marks,  \* SudokuPygame: the pencil marks shown, per cell
    manual_removals,    \* the digits the player excluded, per cell
    error_cells,        \* the list of cells marked in red
    pencil_mode,
    selected,           \* (selected_row, selected_col), or None
    highlighted_number, \* a digit, or 0 for None
    game_state,         \* "playing", "showing_help",
                        \* "selecting_difficulty" or "solved"
    all_marks,          \* what get_all_possible_marks returned last
    events,             \* number of events handled so far
    event,              \* the branch of handle_events taken for the last
                        \* event
    upcoming            \* the games the next calls of new_game will make,
                        \* per difficulty and per check at which the clock
                        \* is late

gen_vars == <<module, difficulty, rng, pc, board, solved_board,
              squares_to_remove, cells, pos, start_time, squares_removed,
              probe, original_board, solution>>
solve_vars == <<solver, input>>
ui_vars == <<user_pencil_marks, manual_removals, error_cells, pencil_mode,
             selected, highlighted_number, game_state, all_marks, events,
             event>>
play_vars == <<game_board, upcoming, ui_vars>>
vars == <<gen_vars, solve_vars, play_vars>>

Modules == {"sudoku", "game"}
\* "expert" and "" are not keys of the levels table
Difficulties == {"easy", "medium", "hard", "expert", ""}
\* the seeds explored: seeds for which the removal loop of all difficulties
\* takes few enough solver steps to be run to its end (for the first of
\* them that is so for the game after the first one too)
seed_list == <<3814, 2359, 171, 83>>
Seeds == {seed_list[k] : k \in 1 .. NumSeeds}
\* values a read of time.time() can return, relative to the first read
Clock == 0 .. MaxClock

NoProbe == [cell |-> None, backup |-> 0, unique |-> FALSE]
idle_solver == solve_call(zeros, FALSE, FALSE, <<>>, 0, 0)

\* [[set() for _ in range(9)] for _ in range(9)]
no_marks == [r \in Idx |-> [c \in Idx |-> {}]]

\* SudokuPygame.__init__, lines 166-173: the state of the window before any
\* event
UiInit ==
    /\ user_pencil_marks = no_marks
    /\ manual_removals = no_marks
    /\ error_cells = <<>>
    /\ pencil_mode = FALSE
    /\ selected = None
    /\ highlighted_number = 0
    /\ game_state = "playing"
    /\ all_marks = no_marks
    /\ events = 0
    /\ event = "none"

\* ------------------------------------------------------------------------
\* SudokuGame.__init__ and generate_puzzle
\* ------------------------------------------------------------------------
\* the timeout test applied by the generators of both files
timed_out_any_module(m, d, t0, now) == d = "hard" /\ now - t0 > timeout

\* `self.difficulty == 'hard' and (time.time() - start_time > timeout)`,
\* with now the value time.time() returns; game.py has no such test
timed_out(m, d, t0, now) == m = "sudoku" /\ d = "hard" /\ now - t0 > timeout

\* the break tested by > instead of >=
target_reached_gt(removed, target) == removed > target

\* `if squares_removed >= squares_to_remove: break`
target_reached(removed, target) == removed >= target

\* removal_attempt without `board[r, c] = backup`
removal_attempt_no_restore(b, r, c, removed) ==
    LET backup == b[r][c]
        cleared == Place(b, r, c, 0)
        unique == has_unique_solution(cleared)
    IN IF ~unique
       THEN [board |-> cleared, squares_removed |-> removed,
             backup |-> backup, unique |-> FALSE]
       ELSE [board |-> cleared, squares_removed |-> removed + 1,
             backup |-> backup, unique |-> TRUE]

\* lines 42-49: the cell (r, c) is cleared, and restored unless the probe on a
\* copy of the board finds the solution unique
removal_attempt(b, r, c, removed) ==
    LET backup == b[r][c]
        cleared == Place(b, r, c, 0)
        unique == has_unique_solution(cleared)
    IN IF ~unique
       THEN [board |-> Place(cleared, r, c, backup),
             squares_removed |-> removed, backup |-> backup,
             unique |-> FALSE]
       ELSE [board |-> cleared, squares_removed |-> removed + 1,
             backup |-> backup, unique |-> TRUE]

\* lines 32-49 without the timeout check: the iterations of the for loop
\* for the cells lo .. hi of the list, in order (after the break no later
\* iteration changes anything)
RECURSIVE run_attempts(_, _, _, _, _)
run_attempts(g, cs, lo, hi, target) ==
    IF g.squares_removed < 0 \/ lo > hi THEN g
    ELSE IF lo = hi
    THEN IF target_reached(g.squares_removed, target) THEN g
         ELSE LET a == removal_attempt(g.board, cs[lo][1], cs[lo][2],
                                       g.squares_removed)
              IN [board |-> a.board, squares_removed |-> a.squares_removed]
    ELSE LET mid == (lo + hi) \div 2
         IN run_attempts(run_attempts(g, cs, lo, mid, target), cs, mid + 1,
                         hi, target)

\* a solved board
base_board ==
    [r \in Idx |-> [c \in Idx |->
        ((BLOCK_SIZE * (r % BLOCK_SIZE) + (r \div BLOCK_SIZE) + c) % GRID_SIZE) + 1]]

\* the solved board with its last t cells (in row-major order) emptied
TailBlank(t) ==
    [r \in Idx |-> [c \in Idx |->
        IF GRID_SIZE * r + c >= GRID_SIZE * GRID_SIZE - t THEN 0
        ELSE base_board[r][c]]]

\* The library is not part of the repository.  What generate.generate
\* returns is an input: one of the puzzles made of base_board by emptying
\* one cell or its last cells, up to a row of them; each has base_board for
\* its only solution, which is what bruteforce yields first
tools_puzzles ==
    {Place(base_board, r, c, 0) : r \in Idx, c \in Idx}
    \cup {TailBlank(t) : t \in 0 .. GRID_SIZE}

\* game.py generate_puzzle with the exception leaving the method
SudokutoolsRaises_propagates ==
    /\ pc = "try"
    /\ module = "game"
    /\ pc' = "error"
    /\ UNCHANGED <<module, difficulty, rng, board, solved_board,
                   squares_to_remove, cells, pos, start_time,
                   squares_removed, probe, original_board, solution>>
    /\ UNCHANGED solve_vars
    /\ UNCHANGED play_vars

\* game.py lines 50-70: a statement of the try block raises an Exception
\* (the library fails, or bruteforce yields no solution and [0] raises
\* IndexError); the handler logs and calls _original_generate_puzzle
SudokutoolsRaises ==
    /\ pc = "try"
    /\ module = "game"
    /\ pc' = "start"
    /\ UNCHANGED <<module, difficulty, rng, board, solved_board,
                   squares_to_remove, cells, pos, start_time,
                   squares_removed, probe, original_board, solution>>
    /\ UNCHANGED solve_vars
    /\ UNCHANGED play_vars

\* game.py lines 61-65 and 37-38: the library returns a puzzle, bruteforce
\* its solution, and they are recorded as they are
SudokutoolsReturns ==
    /\ pc = "try"
    /\ module = "game"
    /\ \E puzzle \in tools_puzzles :
         /\ original_board' = puzzle
         /\ game_board' = puzzle
    /\ solution' = base_board
    /\ pc' = "tools_done"
    /\ UNCHANGED <<module, difficulty, rng, board, solved_board,
                   squares_to_remove, cells, pos, start_time,
                   squares_removed, probe>>
    /\ UNCHANGED solve_vars
    /\ UNCHANGED <<upcoming, ui_vars>>

\* the statements of generate_puzzle before its loop
GenerateStart ==
    /\ pc = "start"
    /\ \E g \in {generate_solved_board(rng)} :
         \E sh \in {shuffle(all_cells, g.rng)} :
            /\ board' = g.board
            /\ solved_board' = g.board
            /\ squares_to_remove' = levels_get(difficulty)
            /\ cells' = sh.seq
            /\ rng' = sh.rng
    /\ start_time' = 0
    /\ squares_removed' = 0
    /\ pos' = 1
    /\ pc' = "loop"
    /\ UNCHANGED <<module, difficulty, probe, original_board, solution>>
    /\ UNCHANGED solve_vars
    /\ UNCHANGED play_vars

\* the for loop has run through all the cells
LoopExhausted ==
    /\ pc = "loop"
    /\ pos > Len(cells)
    /\ pc' = "init"
    /\ UNCHANGED <<module, difficulty, rng, board, solved_board,
                   squares_to_remove, cells, pos, start_time,
                   squares_removed, probe, original_board, solution>>
    /\ UNCHANGED solve_vars
    /\ UNCHANGED play_vars

\* `if squares_removed >= squares_to_remove: break`
TargetReached ==
    /\ pc = "loop"
    /\ pos <= Len(cells)
    /\ target_reached(squares_removed, squares_to_remove)
    /\ pc' = "init"
    /\ UNCHANGED <<module, difficulty, rng, board, solved_board,
                   squares_to_remove, cells, pos, start_time,
                   squares_removed, probe, original_board, solution>>
    /\ UNCHANGED solve_vars
    /\ UNCHANGED play_vars

\* the timeout check made after the cell was cleared (after line 43)
TimedOut_after_clear ==
    /\ pc = "loop"
    /\ pos <= Len(cells)
    /\ ~target_reached(squares_removed, squares_to_remove)
    /\ ~(\A now \in Clock : ~timed_out(module, difficulty, start_time, now))
    /\ board' = Place(board, cells[pos][1], cells[pos][2], 0)
    /\ pc' = "init"
    /\ UNCHANGED <<module, difficulty, rng, solved_board,
                   squares_to_remove, cells, pos, start_time,
                   squares_removed, probe, original_board, solution>>
    /\ UNCHANGED solve_vars
    /\ UNCHANGED play_vars

\* the timeout check of sudoku.py breaks out of the loop
TimedOut ==
    /\ pc = "loop"
    /\ pos <= Len(cells)
    /\ ~target_reached(squares_removed, squares_to_remove)
    /\ ~(\A now \in Clock : ~timed_out(module, difficulty, start_time, now))
    /\ pc' = "init"
    /\ UNCHANGED <<module, difficulty, rng, board, solved_board,
                   squares_to_remove, cells, pos, start_time,
                   squares_removed, probe, original_board, solution>>
    /\ UNCHANGED solve_vars
    /\ UNCHANGED play_vars

\* one iteration of the loop that gets past both breaks
RemovalAttempt ==
    /\ pc = "loop"
    /\ pos <= Len(cells)
    /\ ~target_reached(squares_removed, squares_to_remove)
    /\ ~(\A now \in Clock : timed_out(module, difficulty, start_time, now))
    /\ \E a \in {removal_attempt(board, cells[pos][1], cells[pos][2],
                                 squares_removed)} :
         /\ board' = a.board
         /\ squares_removed' = a.squares_removed
         /\ probe' = [cell |-> cells[pos], backup |-> a.backup,
                      unique |-> a.unique]
    /\ pos' = pos + 1
    /\ UNCHANGED <<module, difficulty, rng, pc, solved_board,
                   squares_to_remove, cells, start_time, original_board,
                   solution>>
    /\ UNCHANGED solve_vars
    /\ UNCHANGED play_vars

\* generate_puzzle returns board; sudoku.py lines 13-17 (game.py lines
\* 101-103 and 37): the puzzle is recorded and solved on a copy
Construct ==
    /\ pc = "init"
    /\ original_board' = board
    /\ game_board' = board
    /\ solution' = solve_sudoku(board, FALSE, FALSE, <<>>, 0, rng).board
    /\ pc' = "done"
    /\ UNCHANGED <<module, difficulty, rng, board, solved_board,
                   squares_to_remove, cells, pos, start_time,
                   squares_removed, probe>>
    /\ UNCHANGED solve_vars
    /\ UNCHANGED <<upcoming, ui_vars>>

\* ------------------------------------------------------------------------
\* What a solution is (independent of the solver)
\* ------------------------------------------------------------------------
Cells == Idx \X Idx
RowOf(r) == {<<r, c>> : c \in Idx}
ColOf(c) == {<<r, c>> : r \in Idx}
BlockOf(br, bc) ==
    {<<r, c>> : r \in (BLOCK_SIZE * br) .. (BLOCK_SIZE * br + BLOCK_SIZE - 1),
                c \in (BLOCK_SIZE * bc) .. (BLOCK_SIZE * bc + BLOCK_SIZE - 1)}
Units == {RowOf(r) : r \in Idx} \cup {ColOf(c) : c \in Idx}
         \cup {BlockOf(br, bc) : br \in 0 .. (BLOCK_SIZE - 1),
                                 bc \in 0 .. (BLOCK_SIZE - 1)}

EmptyCells(b) == {x \in Cells : b[x[1]][x[2]] = 0}
IsFull(b) == \A r \in Idx : \A c \in Idx : b[r][c] # 0

\* every row, column and block contains each digit 1..9 exactly once
ValidSolution(b) ==
    \A u \in Units : \A d \in Digits :
        Cardinality({x \in u : b[x[1]][x[2]] = d}) = 1

\* no digit occurs twice in a row, column or block
Consistent(b) ==
    \A u \in Units : \A x \in u : \A y \in u :
        (x # y /\ b[x[1]][x[2]] # 0) => b[x[1]][x[2]] # b[y[1]][y[2]]

\* sol agrees with b on every non-empty cell of b
Agrees(sol, b) ==
    \A r \in Idx : \A c \in Idx : b[r][c] # 0 => sol[r][c] = b[r][c]

\* d occurs in no unit of the cell x of b
Free(b, x, d) ==
    \A u \in Units : x \in u => \A y \in u : b[y[1]][y[2]] # d

\* the valid solutions that agree with b
RECURSIVE Completions(_)
Completions(b) ==
    IF EmptyCells(b) = {} THEN (IF ValidSolution(b) THEN {b} ELSE {})
    ELSE LET x == CHOOSE y \in EmptyCells(b) : TRUE
         IN UNION {Completions(Place(b, x[1], x[2], d)) :
                      d \in {e \in Digits : Free(b, x, e)}}

\* ------------------------------------------------------------------------
\* The solver on its own: a caller holds a board and calls solve_sudoku in
\* one of its modes, or has_unique_solution
\* ------------------------------------------------------------------------
\* the cells of base_board that hold 1, 4 or 7, in row-major order (the
\* j-th, from 0)
region_cell(j) ==
    LET r == j \div 3
    IN <<r, 3 * (j % 3) + ((3 - ((r \div 3) % 3)) % 3)>>

RECURSIVE Blank(_, _)
Blank(b, S) ==
    IF S = {} THEN b
    ELSE LET j == CHOOSE k \in S : TRUE
         IN Blank(Place(b, region_cell(j)[1], region_cell(j)[2], 0), S \ {j})

\* the inputs.  solve_sudoku takes any board and does not look at the
\* givens before it searches, so the inputs are of both kinds:
\*   givens that do not conflict: the solved board with some cells of the
\*   region emptied and, possibly, one of them filled with another digit
\*   that conflicts with none; and the solved board with its last cells
\*   emptied;
\*   givens that conflict: one of the emptied cells of the region filled
\*   with a digit its row, column or block already holds; and the boards
\*   with their last cells emptied whose second cell repeats the first
InputBoards ==
    LET blanked == {Blank(base_board, S) : S \in SUBSET (0 .. (RegionSize - 1))}
        refilled == UNION {{Place(b, x[1], x[2], d) : d \in {e \in Digits : Free(b, x, e)}}
                             : <<b, x>> \in {<<b1, x1>> \in blanked \X Cells : b1[x1[1]][x1[2]] = 0}}
        clashing == UNION {{Place(b, x[1], x[2], d) : d \in {e \in Digits : ~Free(b, x, e)}}
                             : <<b, x>> \in {<<b1, x1>> \in blanked \X Cells :
                                                /\ b1[x1[1]][x1[2]] = 0
                                                /\ Cardinality(EmptyCells(b1)) <= ClashSize}}
        tails == {TailBlank(t) : t \in 0 .. TailSize}
        repeated == {Place(b, 0, 1, b[0][0]) : b \in tails}
    IN blanked \cup refilled \cup tails \cup clashing \cup repeated

\* the caller calls solve_sudoku(board, randomize, find_all, [], limit)
StartSolve ==
    /\ pc = "idle"
    /\ \E m \in [randomize : {FALSE}, find_all : {FALSE}, limit : {0}, seed : {0}]
               \cup [randomize : {TRUE}, find_all : {FALSE}, limit : {0}, seed : Seeds]
               \cup [randomize : {FALSE}, find_all : {TRUE}, limit : 0 .. MaxLimit, seed : {0}] :
          solver' = solve_call(input, m.randomize, m.find_all, <<>>, m.limit,
                               random_seed(m.seed))
    /\ pc' = "solving"
    /\ UNCHANGED <<module, difficulty, rng, board, solved_board,
                   squares_to_remove, cells, pos, start_time,
                   squares_removed, probe, original_board, solution, input>>
    /\ UNCHANGED play_vars

\* a call is entered
SolveEnter ==
    /\ pc = "solving"
    /\ solver.pc = "call"
    /\ solver' = solve_enter(solver)
    /\ UNCHANGED <<gen_vars, input>>
    /\ UNCHANGED play_vars

\* the innermost call runs its loop up to the next placement or to its end
SolveLoop ==
    /\ pc = "solving"
    /\ solver.pc = "loop"
    /\ solver' = solve_loop(solver)
    /\ UNCHANGED <<gen_vars, input>>
    /\ UNCHANGED play_vars

\* a recursive call has returned to its caller
SolveAfter ==
    /\ pc = "solving"
    /\ solver.pc = "ret"
    /\ solver.stack # <<>>
    /\ solver' = solve_after(solver)
    /\ UNCHANGED <<gen_vars, input>>
    /\ UNCHANGED play_vars

\* the top-level call has returned
SolveReturn ==
    /\ pc = "solving"
    /\ solver.pc = "ret"
    /\ solver.stack = <<>>
    /\ solver' = solve_step(solver)
    /\ UNCHANGED <<gen_vars, input>>
    /\ UNCHANGED play_vars

\* the caller calls has_unique_solution(board)
Probe ==
    /\ pc = "idle"
    /\ probe' = [cell |-> None, backup |-> 0,
                 unique |-> has_unique_solution(board)]
    /\ pc' = "probed"
    /\ UNCHANGED <<module, difficulty, rng, board, solved_board,
                   squares_to_remove, cells, pos, start_time,
                   squares_removed, original_board, solution>>
    /\ UNCHANGED solve_vars
    /\ UNCHANGED play_vars

SolveInit ==
    /\ input \in InputBoards
    /\ board = input
    /\ pc = "idle"
    /\ solver = idle_solver
    /\ module = "sudoku"
    /\ difficulty = "hard"
    /\ rng = 0
    /\ solved_board = zeros
    /\ squares_to_remove = 0
    /\ cells = <<>>
    /\ pos = 1
    /\ start_time = 0
    /\ squares_removed = 0
    /\ probe = NoProbe
    /\ original_board = zeros
    /\ solution = zeros
    /\ game_board = zeros
    /\ upcoming = <<>>
    /\ UiInit

SolveNext ==
    \/ StartSolve
    \/ SolveEnter
    \/ SolveLoop
    \/ SolveAfter
    \/ SolveReturn
    \/ Probe

SolveSpec == SolveInit /\ [][SolveNext]_vars

\* the calls of solve_sudoku alone, executed step by step
SolveRunNext ==
    \/ StartSolve
    \/ SolveEnter
    \/ SolveLoop
    \/ SolveAfter
    \/ SolveReturn

\* a call of solve_sudoku is being executed
Running == pc = "solving" /\ solver.pc # "done"

\* A call that was made runs on: the interpreter executes the next statement
\* of the active call.  This is weak fairness of the steps of the solver,
\* WF_vars(SolveEnter \/ SolveLoop \/ SolveAfter \/ SolveReturn), written
\* out with the state predicate Running for the enabling condition of those
\* steps (one of them is possible exactly while a call is being executed,
\* and they are the only steps that change solver)
SolveLiveSpec ==
    /\ SolveInit
    /\ [][SolveRunNext]_vars
    /\ ([]<>(~Running) \/ []<><<Running /\ solver' # solver>>_vars)

\* generate_solved_board on its own
GenerateSolvedBoard ==
    /\ pc = "fill"
    /\ \E g \in {generate_solved_board(rng)} :
         /\ solved_board' = g.board
         /\ rng' = g.rng
    /\ pc' = "filled"
    /\ UNCHANGED <<module, difficulty, board, squares_to_remove, cells, pos,
                   start_time, squares_removed, probe, original_board,
                   solution>>
    /\ UNCHANGED solve_vars
    /\ UNCHANGED play_vars

GenInit ==
    /\ module \in Modules
    /\ difficulty \in Difficulties
    /\ rng \in {random_seed(a) : a \in Seeds}
    /\ pc = IF module = "game" THEN "try" ELSE "start"
    /\ board = zeros
    /\ solved_board = zeros
    /\ squares_to_remove = 0
    /\ cells = <<>>
    /\ pos = 1
    /\ start_time = 0
    /\ squares_removed = 0
    /\ probe = NoProbe
    /\ original_board = zeros
    /\ solution = zeros
    /\ solver = idle_solver
    /\ input = zeros
    /\ game_board = zeros
    /\ upcoming = <<>>
    /\ UiInit

GenNext ==
    \/ SudokutoolsRaises
    \/ SudokutoolsReturns
    \/ GenerateStart
    \/ LoopExhausted
    \/ TargetReached
    \/ TimedOut
    \/ RemovalAttempt
    \/ Construct

GenSpec == GenInit /\ [][GenNext]_vars

FillInit ==
    /\ rng \in {random_seed(a) : a \in 1 .. FillSeeds}
    /\ pc = "fill"
    /\ module \in Modules
    /\ difficulty = "hard"
    /\ board = zeros
    /\ solved_board = zeros
    /\ squares_to_remove = 0
    /\ cells = <<>>
    /\ pos = 1
    /\ start_time = 0
    /\ squares_removed = 0
    /\ probe = NoProbe
    /\ original_board = zeros
    /\ solution = zeros
    /\ solver = idle_solver
    /\ input = zeros
    /\ game_board = zeros
    /\ upcoming = <<>>
    /\ UiInit

FillNext == GenerateSolvedBoard

FillSpec == FillInit /\ [][FillNext]_vars

\* ------------------------------------------------------------------------
\* SudokuPygame: the games it plays and its event handlers
\* ------------------------------------------------------------------------
\* the variables of generate_puzzle, dead while the window handles events
gen_locals == <<module, board, solved_board, squares_to_remove, cells, pos,
                start_time, squares_removed, probe>>
\* the game object apart from its current board
game_vars == <<difficulty, rng, original_board, solution>>

\* generate_puzzle before its loop (lines 20-25): the solved board and the
\* shuffled list of cells
shuffle_cells(g) == [board |-> g.board, sh |-> shuffle(all_cells, g.rng)]
puzzle_start(rng0) == shuffle_cells(generate_solved_board(rng0))

\* the loop of generate_puzzle (lines 31-50) run to its end; the clock is
\* found past the budget at the check of iteration stop (at none if stop
\* is 0), which counts for the difficulty that has the check
puzzle_loop(d, stop, st) ==
    run_attempts([board |-> st.board, squares_removed |-> 0], st.sh.seq, 1,
                 IF stop > 0 /\ timed_out("sudoku", d, 0, timeout + 1)
                 THEN stop - 1 ELSE Len(st.sh.seq),
                 levels_get(d)).board

\* SudokuGame.__init__ after generate_puzzle returned p (lines 14-17)
game_of(d, p, r) ==
    [difficulty |-> d, original_board |-> p, board |-> p,
     solution |-> solve_sudoku(p, FALSE, FALSE, <<>>, 0, r).board,
     rng |-> r]

\* SudokuGame(difficulty=d)
SudokuGame(d, stop, st) == game_of(d, puzzle_loop(d, stop, st), st.sh.rng)

\* the generator runs of n games in a row, the first from the state rng0:
\* each starts from the state the one before left the generator in
\* (nothing reseeds it between games)
RECURSIVE puzzle_starts(_, _)
puzzle_starts_from(st, n) == <<st>> \o puzzle_starts(st.sh.rng, n - 1)
puzzle_starts(rng0, n) ==
    IF n = 0 THEN <<>> ELSE puzzle_starts_from(puzzle_start(rng0), n)

\* the hard games made of the run st with the clock late at the check
\* stop, stop + 1, ..., MaxStop (the one for stop is at index stop + 1 of
\* hard_games(st, 0); stop 0 is the clock within the budget at every check)
RECURSIVE hard_games(_, _)
hard_games(st, stop) ==
    IF stop > MaxStop THEN <<>>
    ELSE <<SudokuGame("hard", stop, st)>> \o hard_games(st, stop + 1)

\* the games SudokuGame(d) makes of the run st, for the three difficulties
\* of the dialog (the clock plays no part in the easy and the medium one)
games_at(st) ==
    [easy |-> SudokuGame("easy", 0, st),
     medium |-> SudokuGame("medium", 0, st),
     hard |-> hard_games(st, 0)]

\* the games new_game would make of the runs sts[i], sts[i+1], ...
RECURSIVE games_of(_, _)
games_of(sts, i) ==
    IF i > Len(sts) THEN <<>>
    ELSE <<games_at(sts[i])>> \o games_of(sts, i + 1)

\* SudokuGame.get_all_possible_marks without the block of the cell
get_all_possible_marks_no_block(b) ==
    [r \in Idx |-> [c \in Idx |->
        IF b[r][c] = 0
        THEN (Digits \ {b[r][k] : k \in Idx}) \ {b[k][c] : k \in Idx}
        ELSE {}]]

\* SudokuGame.get_all_possible_marks, lines 108-119
get_all_possible_marks(b) ==
    [r \in Idx |-> [c \in Idx |->
        IF b[r][c] = 0
        THEN LET start_r == 3 * (r \div 3)
                 start_c == 3 * (c \div 3)
             IN ((Digits \ {b[r][k] : k \in Idx}) \ {b[k][c] : k \in Idx})
                \ {b[i][j] : i \in start_r .. (start_r + 2),
                             j \in start_c .. (start_c + 2)}
        ELSE {}]]

\* a solved check that accepts every full board
is_solved_full(b, sol) == \A r \in Idx : \A c \in Idx : b[r][c] # 0

\* SudokuGame.is_solved: np.array_equal(self.board, self.solution)
is_solved(b, sol) == b = sol

\* find_errors, lines 635-641: the list it leaves in error_cells
find_errors(orig, b, sol) ==
    LET wrong(x) == /\ orig[x[1]][x[2]] = 0
                    /\ b[x[1]][x[2]] # 0
                    /\ b[x[1]][x[2]] # sol[x[1]][x[2]]
    IN SelectSeq(all_cells, wrong)

\* check_board_completion, lines 621-633: game_state and error_cells after
\* the call
check_board_completion(orig, b, sol, gs, errs) ==
    IF Cardinality({x \in Cells : b[x[1]][x[2]] # 0}) = 81
    THEN IF is_solved(b, sol)
         THEN [game_state |-> "solved", error_cells |-> <<>>]
         ELSE [game_state |-> gs, error_cells |-> find_errors(orig, b, sol)]
    ELSE [game_state |-> gs, error_cells |-> errs]

\* the cells of the grid the player clicks on: the first MaxClick empty
\* cells of the puzzle and its first given
click_cells(orig) ==
    LET empty(x) == orig[x[1]][x[2]] = 0
        given(x) == orig[x[1]][x[2]] # 0
        es == SelectSeq(all_cells, empty)
        gs == SelectSeq(all_cells, given)
    IN {es[i] : i \in 1 .. (IF Len(es) < MaxClick THEN Len(es) ELSE MaxClick)}
       \cup {gs[i] : i \in 1 .. (IF Len(gs) < 1 THEN Len(gs) ELSE 1)}

\* handle_events takes the next event off the queue
Handle(e) ==
    /\ pc = "events"
    /\ events < MaxEvents
    /\ events' = events + 1
    /\ event' = e
    /\ UNCHANGED gen_locals
    /\ UNCHANGED solve_vars

\* lines 218-220, 273-275 and 283-285: the QUIT event in any state, the
\* quit button or the key q while playing
Quit ==
    /\ Handle("quit")
    /\ pc' = "exit"
    /\ UNCHANGED <<game_vars, game_board, user_pencil_marks, manual_removals,
                   error_cells, pencil_mode, selected, highlighted_number,
                   game_state, all_marks, upcoming>>

\* lines 222-225: a click or a key closes the help screen
DismissHelp ==
    /\ game_state = "showing_help"
    /\ Handle("dismiss_help")
    /\ game_state' = "playing"
    /\ UNCHANGED <<pc, game_vars, game_board, user_pencil_marks,
                   manual_removals, error_cells, pencil_mode, selected,
                   highlighted_number, all_marks, upcoming>>

\* new_game(d), lines 593-603, called for a difficulty button or one of
\* the keys e, m, h of the dialog; the clock of the generation is late at
\* the check stop (0: at none)
NewGame(d, stop) ==
    /\ game_state = "selecting_difficulty"
    /\ upcoming # <<>>
    /\ Handle("new_game")
    /\ \E g \in {IF d = "hard" THEN Head(upcoming).hard[stop + 1]
                  ELSE Head(upcoming)[d]} :
         /\ difficulty' = g.difficulty
         /\ original_board' = g.original_board
         /\ game_board' = g.board
         /\ solution' = g.solution
         /\ rng' = g.rng
    /\ upcoming' = Tail(upcoming)
    /\ user_pencil_marks' = no_marks
    /\ manual_removals' = no_marks
    /\ error_cells' = <<>>
    /\ selected' = None
    /\ highlighted_number' = 0
    /\ game_state' = "playing"
    /\ UNCHANGED <<pc, pencil_mode, all_marks>>

\* lines 236-237: Escape closes the dialog
DifficultyEscape ==
    /\ game_state = "selecting_difficulty"
    /\ Handle("escape")
    /\ game_state' = "playing"
    /\ UNCHANGED <<pc, game_vars, game_board, user_pencil_marks,
                   manual_removals, error_cells, pencil_mode, selected,
                   highlighted_number, all_marks, upcoming>>

\* lines 240-243: a click or a key closes the solved screen and opens the
\* dialog
DismissSolved ==
    /\ game_state = "solved"
    /\ Handle("dismiss_solved")
    /\ game_state' = "selecting_difficulty"
    /\ UNCHANGED <<pc, game_vars, game_board, user_pencil_marks,
                   manual_removals, error_cells, pencil_mode, selected,
                   highlighted_number, all_marks, upcoming>>

\* an event no branch acts on: an event that is neither a click nor a key,
\* another key or a click elsewhere in the dialog, a click outside the
\* grid and the buttons, a key that is no shortcut and no digit, a cell key
\* while no cell is selected
Ignored ==
    /\ Handle("ignored")
    /\ UNCHANGED <<pc, game_vars, game_board, user_pencil_marks,
                   manual_removals, error_cells, pencil_mode, selected,
                   highlighted_number, game_state, all_marks, upcoming>>

\* the button new or the key n
OpenDifficulty ==
    /\ game_state = "playing"
    /\ Handle("new")
    /\ game_state' = "selecting_difficulty"
    /\ UNCHANGED <<pc, game_vars, game_board, user_pencil_marks,
                   manual_removals, error_cells, pencil_mode, selected,
                   highlighted_number, all_marks, upcoming>>

\* restart_game, lines 605-614 (button restart or key s)
RestartGame ==
    /\ game_state = "playing"
    /\ Handle("restart")
    /\ game_board' = original_board
    /\ user_pencil_marks' = no_marks
    /\ manual_removals' = no_marks
    /\ error_cells' = <<>>
    /\ selected' = None
    /\ highlighted_number' = 0
    /\ game_state' = "playing"
    /\ UNCHANGED <<pc, game_vars, pencil_mode, all_marks, upcoming>>

\* toggle_pencil_mode, lines 616-619 (button pencil or key p)
TogglePencilMode ==
    /\ game_state = "playing"
    /\ Handle("pencil")
    /\ pencil_mode' = ~pencil_mode
    /\ UNCHANGED <<pc, game_vars, game_board, user_pencil_marks,
                   manual_removals, error_cells, selected,
                   highlighted_number, game_state, all_marks, upcoming>>

\* fill_hint_pencils showing the candidates with nothing taken away
FillHintPencils_all_candidates ==
    /\ game_state = "playing"
    /\ Handle("hints")
    /\ \E logical_marks \in {get_all_possible_marks(game_board)} :
         /\ all_marks' = logical_marks
         /\ user_pencil_marks' = logical_marks
    /\ UNCHANGED <<pc, game_vars, game_board, manual_removals, error_cells,
                   pencil_mode, selected, highlighted_number, game_state,
                   upcoming>>

\* fill_hint_pencils, lines 643-650 (button hints or key h)
FillHintPencils ==
    /\ game_state = "playing"
    /\ Handle("hints")
    /\ \E logical_marks \in {get_all_possible_marks(game_board)} :
         /\ all_marks' = logical_marks
         /\ user_pencil_marks' =
                [r \in Idx |-> [c \in Idx |->
                    logical_marks[r][c] \ manual_removals[r][c]]]
    /\ UNCHANGED <<pc, game_vars, game_board, manual_removals, error_cells,
                   pencil_mode, selected, highlighted_number, game_state,
                   upcoming>>

\* check_board_completion called for the button check or the key c
CheckBoardCompletion ==
    /\ game_state = "playing"
    /\ Handle("check")
    /\ \E chk \in {check_board_completion(original_board, game_board,
                                          solution, game_state,
                                          error_cells)} :
         /\ game_state' = chk.game_state
         /\ error_cells' = chk.error_cells
    /\ UNCHANGED <<pc, game_vars, game_board, user_pencil_marks,
                   manual_removals, pencil_mode, selected,
                   highlighted_number, all_marks, upcoming>>

\* the button help or the key i
ShowHelp ==
    /\ game_state = "playing"
    /\ Handle("help")
    /\ game_state' = "showing_help"
    /\ UNCHANGED <<pc, game_vars, game_board, user_pencil_marks,
                   manual_removals, error_cells, pencil_mode, selected,
                   highlighted_number, all_marks, upcoming>>

\* lines 276-279: a click in the grid selects the cell and highlights its
\* digit
ClickCell(r, c) ==
    /\ game_state = "playing"
    /\ Handle("click")
    /\ selected' = <<r, c>>
    /\ highlighted_number' = game_board[r][c]
    /\ UNCHANGED <<pc, game_vars, game_board, user_pencil_marks,
                   manual_removals, error_cells, pencil_mode, game_state,
                   all_marks, upcoming>>

\* Backspace leaving the list of marked cells as it is
Backspace_keeps_errors ==
    /\ game_state = "playing"
    /\ selected # None
    /\ Handle("backspace")
    /\ LET r == selected[1]
           c == selected[2]
       IN IF original_board[r][c] = 0 /\ game_board[r][c] # 0
          THEN /\ game_board' = Place(game_board, r, c, 0)
               /\ user_pencil_marks' =
                      [user_pencil_marks EXCEPT ![r][c] = {}]
               /\ highlighted_number' = 0
          ELSE UNCHANGED <<game_board, user_pencil_marks,
                           highlighted_number>>
    /\ UNCHANGED <<pc, game_vars, manual_removals, error_cells, pencil_mode,
                   selected, game_state, all_marks, upcoming>>

\* lines 312-318: Backspace with a cell selected
Backspace ==
    /\ game_state = "playing"
    /\ selected # None
    /\ Handle("backspace")
    /\ LET r == selected[1]
           c == selected[2]
       IN IF original_board[r][c] = 0 /\ game_board[r][c] # 0
          THEN /\ error_cells' = <<>>
               /\ game_board' = Place(game_board, r, c, 0)
               /\ user_pencil_marks' =
                      [user_pencil_marks EXCEPT ![r][c] = {}]
               /\ highlighted_number' = 0
          ELSE UNCHANGED <<error_cells, game_board, user_pencil_marks,
                           highlighted_number>>
    /\ UNCHANGED <<pc, game_vars, manual_removals, pencil_mode, selected,
                   game_state, all_marks, upcoming>>

\* lines 320-325: the number a key stands for, -1 for a key that is no
\* digit key.  The key codes are those of pygame 2, whose keypad codes run
\* K_KP1, ..., K_KP9, K_KP0: a keypad key gives a negative number (with the
\* codes of pygame 1.9, K_KP0 + 1 = K_KP1, the keypad keys give the numbers
\* of the top row)
key_num(key) ==
    IF K_1 <= key /\ key <= K_9 THEN key - K_0
    ELSE IF K_KP1 <= key /\ key <= K_KP9 THEN key - K_KP0
    ELSE -1

\* the digit keys writing into any selected cell
DigitKey_any_cell(key) ==
    /\ game_state = "playing"
    /\ selected # None
    /\ Handle("digit")
    /\ LET r == selected[1]
           c == selected[2]
           num == key_num(key)
       IN IF num # -1
          THEN IF pencil_mode
               THEN /\ error_cells' = <<>>
                    /\ IF num \in user_pencil_marks[r][c]
                       THEN /\ user_pencil_marks' =
                                   [user_pencil_marks EXCEPT
                                        ![r][c] = @ \ {num}]
                            /\ manual_removals' =
                                   [manual_removals EXCEPT
                                        ![r][c] = @ \cup {num}]
                       ELSE /\ user_pencil_marks' =
                                   [user_pencil_marks EXCEPT
                                        ![r][c] = @ \cup {num}]
                            /\ manual_removals' =
                                   [manual_removals EXCEPT
                                        ![r][c] = @ \ {num}]
                    /\ game_board' = Place(game_board, r, c, 0)
                    /\ highlighted_number' = 0
                    /\ UNCHANGED game_state
               ELSE /\ game_board' = Place(game_board, r, c, num)
                    /\ user_pencil_marks' =
                           [user_pencil_marks EXCEPT ![r][c] = {}]
                    /\ highlighted_number' = num
                    /\ \E chk \in {check_board_completion(
                                       original_board,
                                       Place(game_board, r, c, num),
                                       solution, game_state, <<>>)} :
                         /\ game_state' = chk.game_state
                         /\ error_cells' = chk.error_cells
                    /\ UNCHANGED manual_removals
          ELSE UNCHANGED <<error_cells, user_pencil_marks, manual_removals,
                           game_board, highlighted_number, game_state>>
    /\ UNCHANGED <<pc, game_vars, pencil_mode, selected, all_marks,
                   upcoming>>

\* lines 320-343: a digit key (top row or keypad) with a cell selected
DigitKey(key) ==
    /\ game_state = "playing"
    /\ selected # None
    /\ Handle("digit")
    /\ LET r == selected[1]
           c == selected[2]
           num == key_num(key)
       IN IF num # -1 /\ original_board[r][c] = 0
          THEN IF pencil_mode
               THEN /\ error_cells' = <<>>
                    /\ IF num \in user_pencil_marks[r][c]
                       THEN /\ user_pencil_marks' =
                                   [user_pencil_marks EXCEPT
                                        ![r][c] = @ \ {num}]
                            /\ manual_removals' =
                                   [manual_removals EXCEPT
                                        ![r][c] = @ \cup {num}]
                       ELSE /\ user_pencil_marks' =
                                   [user_pencil_marks EXCEPT
                                        ![r][c] = @ \cup {num}]
                            /\ manual_removals' =
                                   [manual_removals EXCEPT
                                        ![r][c] = @ \ {num}]
                    /\ game_board' = Place(game_board, r, c, 0)
                    /\ highlighted_number' = 0
                    /\ UNCHANGED game_state
               ELSE /\ game_board' = Place(game_board, r, c, num)
                    /\ user_pencil_marks' =
                           [user_pencil_marks EXCEPT ![r][c] = {}]
                    /\ highlighted_number' = num
                    /\ \E chk \in {check_board_completion(
                                       original_board,
                                       Place(game_board, r, c, num),
                                       solution, game_state, <<>>)} :
                         /\ game_state' = chk.game_state
                         /\ error_cells' = chk.error_cells
                    /\ UNCHANGED manual_removals
          ELSE UNCHANGED <<error_cells, user_pencil_marks, manual_removals,
                           game_board, highlighted_number, game_state>>
    /\ UNCHANGED <<pc, game_vars, pencil_mode, selected, all_marks,
                   upcoming>>

\* SudokuPygame.__init__: the first game is SudokuGame() of difficulty
\* hard, made with the clock late at some check or at none; the games
\* new_game can make after it are determined by the state the generator is
\* left in and by the clock, and are worked out here
PlayInit ==
    /\ \E k \in 1 .. PlaySeeds :
         \E sts \in {puzzle_starts(random_seed(seed_list[k]), MaxGames + 1)} :
            \E first \in {hard_games(sts[1], 0)} :
               \E stop \in 0 .. MaxStop :
                  /\ difficulty = first[stop + 1].difficulty
                  /\ original_board = first[stop + 1].original_board
                  /\ game_board = first[stop + 1].board
                  /\ solution = first[stop + 1].solution
                  /\ rng = first[stop + 1].rng
                  /\ upcoming = games_of(sts, 2)
    /\ module = "sudoku"
    /\ pc = "events"
    /\ board = zeros
    /\ solved_board = zeros
    /\ squares_to_remove = 0
    /\ cells = <<>>
    /\ pos = 1
    /\ start_time = 0
    /\ squares_removed = 0
    /\ probe = NoProbe
    /\ solver = idle_solver
    /\ input = zeros
    /\ UiInit

PlayNext ==
    \/ Quit
    \/ DismissHelp
    \/ \E d \in {"easy", "medium", "hard"} :
          \E stop \in 0 .. MaxStop : NewGame(d, stop)
    \/ DifficultyEscape
    \/ DismissSolved
    \/ Ignored
    \/ OpenDifficulty
    \/ RestartGame
    \/ TogglePencilMode
    \/ FillHintPencils
    \/ CheckBoardCompletion
    \/ ShowHelp
    \/ \E x \in click_cells(original_board) : ClickCell(x[1], x[2])
    \/ Backspace
    \/ \E key \in (K_1 .. K_9) \cup (K_KP1 .. K_KP9) : DigitKey(key)

PlaySpec == PlayInit /\ [][PlayNext]_vars

\* ------------------------------------------------------------------------
\* Properties
\* ------------------------------------------------------------------------
KnownDifficulties == {"easy", "medium", "hard"}
InLoop == pc \in {"loop", "init", "done"}
SolveDone == pc = "solving" /\ solver.pc = "done"
FindFirstMode == ~solver.find_all /\ ~solver.randomize
FindAllMode == solver.find_all /\ solver.solution_limit >= 1
NumCompletions(b) == Cardinality(Completions(b))
\* the solutions a FindAll(limit=2) probe collects on b
ProbeSolutions(b) == solve_sudoku(b, FALSE, TRUE, <<>>, 2, 0).solutions_list

\* C1: after every iteration of the removal loop a FindAll(limit=2) probe of
\* the working board collects exactly one solution, and for the generated
\* game the probe of original_board collects exactly one solution, which is
\* the recorded solution
C1_UniquePuzzle ==
    InLoop =>
        \E sols \in {ProbeSolutions(IF pc = "done" THEN original_board
                                    ELSE board)} :
            /\ Len(sols) = 1
            /\ pc = "done" => sols[1] = solution

C1_Witness ==
    /\ pc = "done"
    /\ module = "game"
    /\ squares_removed >= 43
    /\ Cardinality(EmptyCells(original_board)) >= 43

\* C2: the board generate_solved_board returns is completely filled and has
\* each digit 1..9 exactly once in every row, column and block
C2_SolvedBoardValid ==
    pc = "filled" => IsFull(solved_board) /\ ValidSolution(solved_board)

C2_Witness ==
    /\ pc = "filled"
    /\ IsFull(solved_board)
    /\ <<solved_board[0][0], solved_board[0][1], solved_board[0][2]>>
           # <<1, 2, 3>>

\* C3: FindFirst returns true iff the input board has a completion, and then
\* the board is a full valid solution that agrees with the input board on
\* its non-empty cells
C3_FindFirst ==
    (SolveDone /\ FindFirstMode) =>
        /\ solver.ret <=> Completions(input) # {}
        /\ solver.ret => /\ IsFull(solver.board)
                         /\ ValidSolution(solver.board)
                         /\ Agrees(solver.board, input)

\* C4: FindAll(limit) returns true iff at least one solution was collected
\* (the limit reached, or the search exhausted with fewer than limit found)
C4_TrueIffSolutionFound ==
    (SolveDone /\ FindAllMode) =>
        (solver.ret <=> Len(solver.solutions_list) >= 1)

\* C5: FindAll(limit) collects exactly min(limit, N) boards, pairwise
\* distinct, each a full valid solution agreeing with the input board, and
\* the list never holds more than limit boards
C5_CollectsMinLimitN ==
    (pc = "solving" /\ FindAllMode) =>
        /\ Len(solver.solutions_list) <= solver.solution_limit
        /\ solver.pc = "done" =>
              \E n \in {NumCompletions(input)} :
                 /\ Len(solver.solutions_list) =
                        IF solver.solution_limit <= n
                        THEN solver.solution_limit ELSE n
                 /\ \A i \in 1 .. Len(solver.solutions_list) :
                        /\ IsFull(solver.solutions_list[i])
                        /\ ValidSolution(solver.solutions_list[i])
                        /\ Agrees(solver.solutions_list[i], input)
                        /\ \A j \in 1 .. Len(solver.solutions_list) :
                              i # j => solver.solutions_list[i]
                                           # solver.solutions_list[j]

\* C6: when a call of solve_sudoku, top-level or recursive, returns false,
\* the board equals the board the call was entered with
C6_FailureRestoresBoard ==
    (pc = "solving" /\ solver.pc \in {"ret", "done"} /\ ~solver.ret) =>
        solver.board = solver.entry

\* a recursive call that found and recorded a solution deeper down returns
\* false with every placement undone
C6_Witness ==
    /\ pc = "solving"
    /\ solver.pc = "ret"
    /\ ~solver.ret
    /\ Len(solver.stack) >= 2
    /\ Len(solver.solutions_list) >= 1
    /\ solver.board = solver.entry
    /\ Cardinality(EmptyCells(solver.entry)) >= 2

\* C7: has_unique_solution is true iff the board has exactly one completion
\* (the limit-2 probe collects 2 solutions for two or more completions and
\* none for no completion), and the board passed to it is unchanged
C7_UniqueIffOneCompletion ==
    pc = "probed" =>
        \E n \in {NumCompletions(input)} :
            /\ probe.unique <=> n = 1
            /\ n >= 2 => Len(ProbeSolutions(input)) = 2
            /\ n = 0 => Len(ProbeSolutions(input)) = 0
            /\ board = input

\* C8: the recorded solution is the solved board of step 1, a full valid
\* board that agrees with original_board on every non-empty cell
C8_SolutionIsSolvedBoard ==
    pc = "done" =>
        /\ solution = solved_board
        /\ IsFull(solution)
        /\ ValidSolution(solution)
        /\ Agrees(solution, original_board)

C8_Witness ==
    /\ pc = "done"
    /\ solution = solved_board
    /\ Cardinality(EmptyCells(original_board)) >= 51

\* C9: the cells list holds each of the 81 cells once; an attempted cell is
\* empty if its probe succeeded and holds its previous digit otherwise,
\* unattempted cells are untouched; the counter never exceeds the target,
\* the last attempt made is the one that reached it; and the number of empty
\* cells equals the counter
C9_RemovalLoop ==
    InLoop =>
        /\ Len(cells) = GRID_SIZE * GRID_SIZE
        /\ \A i \in 1 .. Len(cells) :
              /\ cells[i] \in Cells
              /\ \A j \in 1 .. Len(cells) : i # j => cells[i] # cells[j]
        /\ \A i \in 1 .. Len(cells) :
              LET v == board[cells[i][1]][cells[i][2]]
              IN IF i >= pos THEN v = solved_board[cells[i][1]][cells[i][2]]
                 ELSE v \in {0, solved_board[cells[i][1]][cells[i][2]]}
        /\ probe.cell # None =>
              /\ probe.cell = cells[pos - 1]
              /\ probe.backup = solved_board[probe.cell[1]][probe.cell[2]]
              /\ board[probe.cell[1]][probe.cell[2]] =
                     IF probe.unique THEN 0 ELSE probe.backup
        /\ squares_removed <= squares_to_remove
        /\ (squares_removed = squares_to_remove) => probe.unique
        /\ Cardinality(EmptyCells(board)) = squares_removed
        /\ pc = "done" =>
              Cardinality(EmptyCells(original_board)) = squares_removed

\* the target was reached before the list of cells was exhausted, after
\* attempts that were rejected
C9_Witness ==
    /\ pc = "done"
    /\ squares_removed = squares_to_remove
    /\ pos <= Len(cells)
    /\ pos - 1 > squares_removed
    /\ probe.unique

\* C10: the target is 43 for easy, 51 for medium, 62 for hard and 51 for any
\* other difficulty, for which no time budget applies and the puzzle is the
\* one the loop produces with the target of medium
C10_Targets ==
    InLoop =>
        /\ difficulty = "easy" => squares_to_remove = 43
        /\ difficulty = "medium" => squares_to_remove = 51
        /\ difficulty = "hard" => squares_to_remove = 62
        /\ difficulty \notin KnownDifficulties =>
              /\ squares_to_remove = 51
              /\ \A now \in Clock :
                    ~timed_out(module, difficulty, start_time, now)
              /\ pc = "done" =>
                    original_board =
                        run_attempts([board |-> solved_board,
                                      squares_removed |-> 0], cells, 1,
                                     Len(cells), levels_get("medium")).board

C10_Witness ==
    /\ pc = "done"
    /\ difficulty = "expert"
    /\ module = "sudoku"
    /\ squares_removed = 51

\* the loop of sudoku.py was left at its timeout check
TimedOutExit ==
    /\ pc \in {"init", "done"}
    /\ pos <= Len(cells)
    /\ ~target_reached(squares_removed, squares_to_remove)

\* the budget is about to be checked
BudgetChecked ==
    /\ pc = "loop"
    /\ difficulty = "hard"
    /\ pos <= Len(cells)
    /\ ~target_reached(squares_removed, squares_to_remove)

C11_Returned ==
    (module = "sudoku" /\ difficulty = "hard" /\ pc \in {"init", "done"}) =>
        /\ Cardinality(EmptyCells(board)) = squares_removed
        /\ \A i \in 1 .. Len(cells) :
              (i >= pos \/ board[cells[i][1]][cells[i][2]] # 0) =>
                  board[cells[i][1]][cells[i][2]]
                      = solved_board[cells[i][1]][cells[i][2]]
        /\ pc = "init" =>
              \E sols \in {solve_sudoku(board, FALSE, TRUE, <<>>, 2, 0)
                              .solutions_list} :
                  Len(sols) = 1 /\ sols[1] = solved_board
        /\ pc = "done" => original_board = board

\* a step of the loop either leaves it, changing nothing, or is one attempt,
\* on the next cell of the list, which changes no other cell
C11_LoopStep ==
    (module = "sudoku" /\ difficulty = "hard" /\ pc = "loop") =>
        \/ /\ pc' = "init"
           /\ board' = board
           /\ squares_removed' = squares_removed
           /\ pos' = pos
        \/ /\ pc' = "loop"
           /\ pos' = pos + 1
           /\ pos <= Len(cells)
           /\ \A r \in Idx : \A c \in Idx :
                 <<r, c>> # cells[pos] => board'[r][c] = board[r][c]

\* C11: for difficulty hard, whatever the clock returns, generate_puzzle of
\* sudoku.py ends after at most 81 attempts: at every check of the budget
\* the loop can be left (the clock may be past the budget), leaving it
\* changes no cell and keeps the count of accepted clearings, and the board
\* returned has as many empty cells as clearings were accepted, all other
\* cells as in the solved board, and exactly one completion
C11_TimeoutKeepsValidPuzzle ==
    /\ []C11_Returned
    /\ [][C11_LoopStep]_vars
    /\ []((module = "sudoku" /\ BudgetChecked) => ENABLED TimedOut)

\* the budget was found exceeded after some, not all, clearings
C11_Witness ==
    /\ pc = "done"
    /\ module = "sudoku"
    /\ difficulty = "hard"
    /\ TimedOutExit
    /\ squares_removed >= 1
    /\ original_board = board

\* C12 as claimed: in both generators, at every iteration of the removal
\* loop for difficulty hard the loop can be left because the budget is
\* exceeded, with the clearings accepted so far
C12_BudgetInBothGenerators ==
    BudgetChecked => ENABLED TimedOut

\* C12 as amended: only generate_puzzle of sudoku.py tests the budget; the
\* fallback of game.py leaves its loop only when the target is reached or
\* the list of cells is exhausted
C12_BudgetOnlyInSudoku ==
    /\ BudgetChecked => (ENABLED TimedOut <=> module = "sudoku")
    /\ (module = "game" /\ pc \in {"init", "done"}) => ~TimedOutExit

C12_Witness ==
    /\ module = "game"
    /\ difficulty = "hard"
    /\ pc = "done"
    /\ squares_removed >= 51
    /\ ~TimedOutExit

C16_FallbackPair ==
    (module = "game" /\ pc = "done") =>
        /\ \E r \in {solve_sudoku(original_board, FALSE, TRUE, <<>>, 2, 0)} :
              /\ Len(r.solutions_list) = 1
              /\ r.solutions_list[1] = solution
        /\ IsFull(solution)
        /\ ValidSolution(solution)
        /\ Agrees(solution, original_board)
        /\ game_board = original_board

C16_TryStep ==
    (pc = "try") => (pc' \in {"start", "tools_done"})

\* C16: game.py generate_puzzle lets no exception of its try block out: the
\* block either returns the pair of the library or is left for the
\* backtracking fallback, and when the method returns after the fallback its
\* pair is a puzzle with exactly one completion and that completion
C16_FailureFallsBack ==
    /\ []C16_FallbackPair
    /\ [][C16_TryStep]_vars
    /\ [](pc \in {"try", "start", "loop", "init", "done", "tools_done"})

C16_Witness ==
    /\ module = "game"
    /\ pc = "done"
    /\ difficulty = "medium"
    /\ Cardinality(EmptyCells(original_board)) >= 43
    /\ solution = solved_board

\* the first empty cell in row-major order, None when there is none
FirstEmpty(b) ==
    IF EmptyCells(b) = {} THEN None
    ELSE CHOOSE x \in EmptyCells(b) :
            \A y \in EmptyCells(b) :
                GRID_SIZE * x[1] + x[2] <= GRID_SIZE * y[1] + y[2]

\* C15: find_empty_cell returns the empty cell that is first in row-major
\* order, and None iff the board is full; every active call of the solver
\* branches on the first empty cell of the board it was entered with, and
\* looking for the cell leaves the board as it is
C15_FirstEmptyRowMajor ==
    pc = "solving" =>
        /\ find_empty_cell(solver.board) = FirstEmpty(solver.board)
        /\ find_empty_cell(solver.board) = None <=> IsFull(solver.board)
        /\ \A k \in 1 .. Len(solver.stack) :
              /\ <<solver.stack[k].row, solver.stack[k].col>>
                     = FirstEmpty(solver.stack[k].entry)
              /\ solver.stack[k].entry[solver.stack[k].row][solver.stack[k].col] = 0
        /\ (solver.pc = "loop" /\ Top(solver).i = 1) =>
              solver.board = Top(solver).entry

\* the solver branches on a cell that has empty cells after it in its row
\* and in its column further left
C15_Witness ==
    /\ pc = "solving"
    /\ solver.pc = "loop"
    /\ Len(solver.stack) >= 2
    /\ \E x \in EmptyCells(solver.board) :
          /\ x[1] > Top(solver).row
          /\ x[2] < Top(solver).col
    /\ <<Top(solver).row, Top(solver).col>> = FirstEmpty(solver.board)

\* number of nested calls that are active
Depth(s) == Len(s.stack) + (IF s.pc = "call" THEN 1 ELSE 0)
NumEmpty(b) == Cardinality(EmptyCells(b))

C18_Depth ==
    pc = "solving" =>
        /\ Depth(solver) <= NumEmpty(input) + 1
        /\ Depth(solver) <= GRID_SIZE * GRID_SIZE + 1
        /\ \A k \in 1 .. Len(solver.stack) :
              NumEmpty(solver.stack[k].entry) = NumEmpty(input) - (k - 1)
        /\ solver.pc = "call" =>
              NumEmpty(solver.board) = NumEmpty(input) - Len(solver.stack)

\* C18: every call of solve_sudoku returns, and at any time the number of
\* nested calls is at most the number of empty cells of the input board
\* plus one, the k-th nested call being entered with k - 1 more cells
\* filled than the input
C18_TerminatesBoundedDepth ==
    /\ []C18_Depth
    /\ (pc = "solving") ~> (pc = "solving" /\ solver.pc = "done")

C18_Witness ==
    /\ pc = "solving"
    /\ solver.pc = "call"
    /\ NumEmpty(input) >= 10
    /\ Depth(solver) = NumEmpty(input) + 1
    /\ IsFull(solver.board)

LimitReached(s) ==
    /\ s.find_all
    /\ s.solution_limit >= 1
    /\ Len(s.solutions_list) >= s.solution_limit

\* once the limit is reached: no cell receives a digit, the list stays as
\* it is, and the step is a return of true, by the innermost active call
\* after the reset of its own cell
C19_Unwind ==
    (pc = "solving" /\ solver.pc # "done" /\ LimitReached(solver)) =>
        /\ solver'.solutions_list = solver.solutions_list
        /\ solver'.ret = TRUE
        /\ solver'.pc \in {"ret", "done"}
        /\ \A r \in Idx : \A c \in Idx :
              solver'.board[r][c] \in {0, solver.board[r][c]}
        /\ solver.stack # <<>> =>
              /\ solver'.board = Place(solver.board, Top(solver).row,
                                       Top(solver).col, 0)
              /\ solver'.stack = Pop(solver)
        /\ solver.stack = <<>> => solver'.board = solver.board

C19_Final ==
    (SolveDone /\ FindAllMode) => solver.board = input

\* C19: in FindAll(limit) mode, from the moment the list holds limit
\* solutions no digit is placed: every step is the innermost active call
\* resetting its cell and returning true; and when the top-level call
\* returns, true or false, the board equals the input board
C19_LimitUnwinds ==
    /\ [][C19_Unwind]_vars
    /\ []C19_Final

C19_Witness ==
    /\ SolveDone
    /\ FindAllMode
    /\ solver.solution_limit >= 2
    /\ LimitReached(solver)
    /\ solver.ret
    /\ NumEmpty(input) >= 4
    /\ solver.board = input

\* a comes before b when the 81 cells are read in row-major order
LexLess(a, b) ==
    \E x \in Cells :
        /\ a[x[1]][x[2]] < b[x[1]][x[2]]
        /\ \A y \in Cells :
              GRID_SIZE * y[1] + y[2] < GRID_SIZE * x[1] + x[2] =>
                  a[y[1]][y[2]] = b[y[1]][y[2]]

Candidates(b, r, c) ==
    IF b[r][c] = 0 THEN {d \in Digits : Free(b, <<r, c>>, d)} ELSE {}

\* the last event handled was a hint request: the board is as it was when
\* get_all_possible_marks was called
HintsShown == pc = "events" /\ event = "hints"

\* C13: get_all_possible_marks gives, for each empty cell, exactly the
\* digits that occur neither in its row, nor in its column, nor in its
\* block, which are the digits is_valid_move accepts there, and the empty
\* set for each cell that holds a digit; on a full board the 81 sets are
\* empty and find_empty_cell finds nothing.  The call leaves the board as it
\* was, and a second call gives the same sets.
C13_Marks ==
    HintsShown =>
        /\ \A r \in Idx : \A c \in Idx :
              /\ all_marks[r][c] = Candidates(game_board, r, c)
              /\ game_board[r][c] = 0 =>
                    all_marks[r][c] =
                        {d \in Digits : is_valid_move(game_board, r, c, d)}
              /\ game_board[r][c] # 0 => all_marks[r][c] = {}
        /\ IsFull(game_board) =>
              /\ \A r \in Idx : \A c \in Idx : all_marks[r][c] = {}
              /\ find_empty_cell(game_board) = None
        /\ get_all_possible_marks(game_board) = all_marks
C13_HintStep ==
    (events' = events + 1 /\ event' = "hints") => game_board' = game_board
C13_PossibleMarks == []C13_Marks /\ [][C13_HintStep]_vars

\* C13 witness: hints were computed for a board with an empty cell some of
\* whose digits, but not all, are excluded, one of them by the block alone
C13_Witness ==
    /\ HintsShown
    /\ \E r \in Idx : \E c \in Idx :
          /\ game_board[r][c] = 0
          /\ all_marks[r][c] # {}
          /\ \E d \in Digits \ all_marks[r][c] :
                /\ \A k \in Idx : game_board[r][k] # d
                /\ \A k \in Idx : game_board[k][c] # d

\* C14: after a hint request the pencil marks of every cell are the
\* candidates of the cell without the digits the player excluded there (an
\* excluded digit that is no candidate makes no difference); the excluded
\* digits and the board are left as they were
C14_MarksShown ==
    HintsShown =>
        \A r \in Idx : \A c \in Idx :
            /\ user_pencil_marks[r][c] =
                   Candidates(game_board, r, c) \ manual_removals[r][c]
            /\ manual_removals[r][c] \cap Candidates(game_board, r, c) = {}
                   => user_pencil_marks[r][c] = Candidates(game_board, r, c)
C14_HintStep ==
    (events' = events + 1 /\ event' = "hints") =>
        /\ manual_removals' = manual_removals
        /\ game_board' = game_board
C14_HintsMinusRemovals == []C14_MarksShown /\ [][C14_HintStep]_vars

\* C14 witness: hints shown while the player has excluded a candidate of
\* an empty cell
C14_Witness ==
    /\ HintsShown
    /\ \E r \in Idx : \E c \in Idx :
          /\ manual_removals[r][c] \cap Candidates(game_board, r, c) # {}
          /\ user_pencil_marks[r][c] # Candidates(game_board, r, c)

\* C17: whatever events the window handles, the board of the game agrees
\* with original_board on every given, and original_board and solution
\* change only when new_game makes another game
C17_GivensKept ==
    pc \in {"events", "exit"} =>
        \A r \in Idx : \A c \in Idx :
            original_board[r][c] # 0 =>
                game_board[r][c] = original_board[r][c]
C17_GameStep ==
    (pc = "events" /\ ~(events' = events + 1 /\ event' = "new_game"
                        /\ game_state = "selecting_difficulty")) =>
        /\ original_board' = original_board
        /\ solution' = solution
C17_GivensUnchangeable == []C17_GivensKept /\ [][C17_GameStep]_vars

\* C17 witness: a digit key was pressed with a given selected, after the
\* player had changed the board
C17_Witness ==
    /\ pc = "events"
    /\ event = "digit"
    /\ selected # None
    /\ original_board[selected[1]][selected[2]] # 0
    /\ game_board # original_board

\* the non-given cells of b that hold a digit other than the solution's
WrongCells(orig, b, sol) ==
    {x \in Cells : /\ orig[x[1]][x[2]] = 0
                   /\ b[x[1]][x[2]] # 0
                   /\ b[x[1]][x[2]] # sol[x[1]][x[2]]}

\* C21: whatever events the window handles, game_state is "solved" only
\* while the board equals the solution in all 81 cells, and error_cells is
\* non-empty only while the board is full, every listed cell then being a
\* non-given cell whose digit differs from the solution's; a handler that
\* changes the board empties error_cells, and leaves it empty unless it
\* lists the wrong cells of the new, full board afresh
C21_Shown ==
    pc \in {"events", "exit"} =>
        /\ game_state = "solved" =>
              \A r \in Idx : \A c \in Idx : game_board[r][c] = solution[r][c]
        /\ error_cells # <<>> =>
              /\ IsFull(game_board)
              /\ \A i \in 1 .. Len(error_cells) :
                    error_cells[i] \in
                        WrongCells(original_board, game_board, solution)
C21_BoardStep ==
    (pc = "events" /\ game_board' # game_board) =>
        \/ error_cells' = <<>>
        \/ /\ IsFull(game_board')
           /\ {error_cells'[i] : i \in 1 .. Len(error_cells')} =
                  WrongCells(original_board', game_board', solution')
C21_SolvedAndErrors == []C21_Shown /\ [][C21_BoardStep]_vars

\* C21 witness: a full board with a wrong digit, its cell listed in
\* error_cells
C21_Witness ==
    /\ pc = "events"
    /\ error_cells # <<>>
    /\ IsFull(game_board)
    /\ game_state = "playing"

\* the full boards the player can make of the puzzle orig: a digit written
\* into each of its empty cells, the givens as they are
RECURSIVE PlayerBoards(_)
PlayerBoards(orig) ==
    IF EmptyCells(orig) = {} THEN {orig}
    ELSE LET x == CHOOSE y \in EmptyCells(orig) : TRUE
         IN UNION {PlayerBoards(Place(orig, x[1], x[2], d)) : d \in Digits}

\* sol is a valid solution of the puzzle orig and the only one a
\* FindAll(limit=2) search finds
OnlySolution(orig, sol) ==
    /\ ValidSolution(sol)
    /\ Agrees(sol, orig)
    /\ ProbeSolutions(orig) = <<sol>>

\* the games a new game can be, whatever the difficulty chosen and the
\* check at which the clock is late
GamesOffered(u) == {u.easy, u.medium} \cup {u.hard[k] : k \in 1 .. Len(u.hard)}

\* every full board the player can make of orig passes the solved check
\* exactly if it is a valid solution (for the puzzles with few enough empty
\* cells for these boards to be listed)
PlayerBoardsJudged(orig, sol) ==
    Cardinality(EmptyCells(orig)) < MaxStop =>
        \A f \in PlayerBoards(orig) :
            is_solved(f, sol) <=> (IsFull(f) /\ ValidSolution(f))

\* C22: for every game the window plays and every board the player's input
\* leads to, is_solved (equality with the recorded solution) is true
\* exactly if the board has no empty cell and every row, column and block
\* holds each digit once; the recorded solution of every game made is a
\* valid solution of its puzzle and the only one
C22_SolvedIffValid ==
    pc \in {"events", "exit"} =>
        /\ is_solved(game_board, solution) <=>
               (IsFull(game_board) /\ ValidSolution(game_board))
        /\ events = 0 =>
              /\ OnlySolution(original_board, solution)
              /\ PlayerBoardsJudged(original_board, solution)
              /\ \A i \in 1 .. Len(upcoming) :
                    \A g \in GamesOffered(upcoming[i]) :
                        /\ OnlySolution(g.original_board, g.solution)
                        /\ PlayerBoardsJudged(g.original_board, g.solution)

\* C22 witness: the player has filled the empty cells with the right
\* digits and the solved check has accepted the board
C22_Witness ==
    /\ pc = "events"
    /\ game_state = "solved"
    /\ game_board # original_board
    /\ is_solved(game_board, solution)
    /\ ValidSolution(game_board)

====
